---- MODULE Spec2Model ----
(***************************************************************************)
(* ServiVENT: the transactional edge functions (create-sale,               *)
(* create-purchase, registrar-pago-compra, receive-purchase-stock) over    *)
(* one shared Postgres database.                                           *)
(*                                                                         *)
(* Every handler invocation is a process; every awaited database round     *)
(* trip is one atomic step.  The database runs at READ COMMITTED (the      *)
(* handlers never set another level): a statement sees the committed rows  *)
(* plus the writes of its own transaction; a row written or locked by a    *)
(* transaction stays locked until that transaction ends; a statement that  *)
(* needs a row locked by another transaction waits and then works on the   *)
(* row as committed at that moment.                                        *)
(*                                                                         *)
(* Money is counted in thousandths of a currency unit, so that the         *)
(* payment tolerance 0.001 is one unit; costo_promedio is an exact         *)
(* fraction <<numerator, denominator>> in lowest terms.                    *)
(***************************************************************************)
EXTENDS Integers, Sequences, FiniteSets, TLC

\* ------------------------------------------------------------------ bounds
NProcs == 2
NProducts == 2
MaxStock == 2
MaxQty == 2
MaxItems == 2
MaxCompras == 3
MaxPagos == 2
MaxCost == 2
NBranches == 2
MaxVentas == 3
MaxPrice == 2
MaxTimers == 2

Procs == 1..NProcs
Products == 1..NProducts
PurchaseIds == 1..MaxCompras
Branches == 1..NBranches

\* The branch every request of the model names (the contended one).
Sucursal == 1

VARIABLES
    Inventario,      \* committed table Inventario: product -> row
    Ventas,          \* committed table Ventas: sequence of header rows
    Detalles_Venta,  \* committed table Detalles_Venta: sequence of rows
    seqVentas,       \* the serial sequence behind Ventas.id
    Compras,         \* committed table Compras: id -> row
    Detalles_Compra, \* committed table Detalles_Compra: id_compra -> rows
    Pagos_Compra,    \* committed table Pagos_Compra: id_compra -> amounts
    seqCompras,      \* the serial sequence behind Compras.id
    fkPagos,         \* schema: Pagos_Compra.id_compra references Compras.id
    databaseUrl,     \* configuration: DB_CONNECTION_STRING is set
    Precios_Sucursal,\* committed table Precios_Sucursal of one product: branch -> row
    page,            \* the purchase-detail page open on purchase 1
    lockInv,         \* row lock of Inventario: product -> holder (0: free)
    lockCompra,      \* row lock of Compras: id -> holder (0: free)
    pend,            \* per process: the uncommitted writes of its transaction
    pc,              \* per process: position in its handler
    req,             \* per process: the parsed request body
    loc,             \* per process: the handler's local variables
    conn,            \* per process: holds a pooled connection
    resp,            \* per process: the HTTP response returned
    Inventario0,     \* history: Inventario as it was initially
    Compras0,        \* history: Compras as it was initially
    Batches          \* history: per product, the committed merges (sum of
                     \* quantities, sum of quantity * unit cost)

ventaVars == <<Ventas, Detalles_Venta, seqVentas>>
compraVars == <<Compras, Detalles_Compra, Pagos_Compra, seqCompras>>
dbVars == <<Inventario, ventaVars, compraVars, fkPagos, databaseUrl, Precios_Sucursal,
           page, Inventario0, Compras0,
           Batches>>
lockVars == <<lockInv, lockCompra>>
vars == <<dbVars, lockVars, pend, pc, req, loc, conn, resp>>

\* ------------------------------------------------------------ fractions
RECURSIVE Gcd(_, _)
Gcd(a, b) == IF b = 0 THEN a ELSE Gcd(b, a % b)

Abs(n) == IF n < 0 THEN -n ELSE n

\* n/d in lowest terms with a positive denominator (d # 0).
Frac(n, d) ==
    LET g == Gcd(Abs(n), Abs(d))
        s == IF d < 0 THEN -1 ELSE 1
    IN  <<(s * n) \div g, (s * d) \div g>>

FracOfInt(n) == <<n, 1>>

\* SQL NULL of a numeric column (every stored number is >= 0).
NULL == 0 - 1

\* ------------------------------------------------------------------ rows
NoInv == [e |-> FALSE, cantidad |-> 0, costo |-> FracOfInt(0)]
InvRow(q, c) == [e |-> TRUE, cantidad |-> q, costo |-> c]

NoCompra == [e |-> FALSE, estado |-> "", estado_pago |-> "",
             monto_total |-> 0, tipo_cambio |-> NULL]
CompraRow(est, ep, mt, tc) ==
    [e |-> TRUE, estado |-> est, estado_pago |-> ep, monto_total |-> mt,
     tipo_cambio |-> tc]

\* A Precios_Sucursal row of the product: the branch's price override.
NoPrecio == [e |-> FALSE, precio_venta |-> 0]
PrecioRow(v) == [e |-> TRUE, precio_venta |-> v]

NoPage == [estado |-> "", timers |-> {}]

NoWrite == [w |-> FALSE, row |-> NoInv]
NoPrecioWrite == [w |-> FALSE, row |-> NoPrecio]
NoCompraWrite == [w |-> FALSE, id |-> 0, row |-> NoCompra]
NoPend == [inv |-> [p \in Products |-> NoWrite], ventas |-> <<>>,
           dv |-> <<>>, compra |-> NoCompraWrite, dc |-> <<>>,
           pagos |-> <<>>, batches |-> <<>>,
           precios |-> [b \in Branches |-> NoPrecioWrite]]

\* An error message: its kind and the values it names.
ErrMsg(tipo, a, b, s) == [tipo |-> tipo, a |-> a, b |-> b, s |-> s]
NoErr == ErrMsg("none", 0, 0, "")
Err(tipo) == ErrMsg(tipo, 0, 0, "")
NoResp == [status |-> 0, success |-> FALSE, id |-> 0, msg |-> NoErr]
\* rowCount is NULL until the conditional UPDATE of create-sale has run.
\* acquired records that pool.connect() gave the invocation a connection,
\* releases counts its connection.release() calls and rollbackFailed
\* records that its ROLLBACK threw (all three as history).
NoLoc == [i |-> 0, id |-> 0, rowCount |-> NULL, total |-> 0, paid |-> 0,
          items |-> <<>>, purchase |-> NoCompra, error |-> NoErr,
          acquired |-> FALSE, releases |-> 0, rollbackFailed |-> FALSE]
NoReq == [kind |-> "idle"]

\* A statement that does not see the rows its own transaction has written.
InvCommitted(t, p) == Inventario[p]

\* What a statement of process t sees of an Inventario row: its own
\* uncommitted version if it wrote one, else the committed row.
InvView(t, p) ==
    IF pend[t].inv[p].w THEN pend[t].inv[p].row ELSE Inventario[p]

\* A statement of t that must lock row p waits while another holds it.
InvLockedByOther(t, p) == lockInv[p] # 0 /\ lockInv[p] # t

\* ---------------------------------------------------- shared handler steps
\* new Pool(databaseUrl, 3, true): at most PoolSize connections per function.
PoolSize == 3

Holders(kind) == {u \in Procs : conn[u] /\ req[u].kind = kind}

\* The status the catch block of each function answers with.
CatchStatus(kind) == IF kind \in {"sale", "compra"} THEN 500 ELSE 400

\* Sum of f over the batches of product p in a sequence of merges.
RECURSIVE BatchQty(_, _)
BatchQty(bs, p) ==
    IF bs = <<>> THEN 0
    ELSE (IF Head(bs).p = p THEN Head(bs).q ELSE 0) + BatchQty(Tail(bs), p)

RECURSIVE BatchValue(_, _)
BatchValue(bs, p) ==
    IF bs = <<>> THEN 0
    ELSE (IF Head(bs).p = p THEN Head(bs).q * Head(bs).c ELSE 0)
         + BatchValue(Tail(bs), p)

ReleaseLocks(t, locks) == [k \in DOMAIN locks |-> IF locks[k] = t THEN 0 ELSE locks[k]]

\* COMMIT: the transaction's writes become the committed rows, its row
\* locks are released, and the success response is built.
CommitWrites(t) ==
    LET w == pend[t]
    IN  /\ Inventario' = [p \in Products |->
               IF w.inv[p].w THEN w.inv[p].row ELSE Inventario[p]]
        /\ Ventas' = Ventas \o w.ventas
        /\ Detalles_Venta' = Detalles_Venta \o w.dv
        /\ Compras' = IF w.compra.w
                      THEN [Compras EXCEPT ![w.compra.id] = w.compra.row]
                      ELSE Compras
        /\ Detalles_Compra' = IF w.dc # <<>>
                              THEN [Detalles_Compra EXCEPT ![w.compra.id] = @ \o w.dc]
                              ELSE Detalles_Compra
        /\ Batches' = [p \in Products |->
               [q |-> Batches[p].q + BatchQty(w.batches, p),
                v |-> Batches[p].v + BatchValue(w.batches, p)]]
        /\ Pagos_Compra' = IF w.pagos # <<>>
                           THEN [Pagos_Compra EXCEPT ![req[t].purchaseId] = @ \o w.pagos]
                           ELSE Pagos_Compra
        /\ Precios_Sucursal' = [b \in Branches |->
               IF w.precios[b].w THEN w.precios[b].row ELSE Precios_Sucursal[b]]

Commit(t) ==
    /\ pc[t] = "commit"
    /\ CommitWrites(t)
    /\ pend' = [pend EXCEPT ![t] = NoPend]
    /\ lockInv' = ReleaseLocks(t, lockInv)
    /\ lockCompra' = ReleaseLocks(t, lockCompra)
    /\ resp' = [resp EXCEPT ![t] =
                 [status |-> 200, success |-> TRUE, id |-> loc[t].id, msg |-> NoErr]]
    /\ pc' = [pc EXCEPT ![t] = "finally"]
    /\ UNCHANGED <<seqVentas, seqCompras, fkPagos, databaseUrl, page, Inventario0,
                   Compras0, req, loc, conn>>

\* A catch block that ends the transaction with its writes kept.
RollbackKeepingWrites(t) ==
    /\ pc[t] = "catch"
    /\ CommitWrites(t)
    /\ pend' = [pend EXCEPT ![t] = NoPend]
    /\ lockInv' = ReleaseLocks(t, lockInv)
    /\ lockCompra' = ReleaseLocks(t, lockCompra)
    /\ resp' = [resp EXCEPT ![t] =
                 [status |-> CatchStatus(req[t].kind), success |-> FALSE,
                  id |-> 0, msg |-> loc[t].error]]
    /\ pc' = [pc EXCEPT ![t] = "finally"]
    /\ UNCHANGED <<seqVentas, seqCompras, fkPagos, databaseUrl, page, Inventario0,
                   Compras0, req, loc, conn>>

\* catch: ROLLBACK when a connection was acquired (the transaction's writes
\* and locks are dropped), then the error response with the caught message.
Rollback(t) ==
    /\ pc[t] = "catch"
    /\ pend' = [pend EXCEPT ![t] = NoPend]
    /\ lockInv' = ReleaseLocks(t, lockInv)
    /\ lockCompra' = ReleaseLocks(t, lockCompra)
    /\ resp' = [resp EXCEPT ![t] =
                 [status |-> CatchStatus(req[t].kind), success |-> FALSE,
                  id |-> 0, msg |-> loc[t].error]]
    /\ pc' = [pc EXCEPT ![t] = "finally"]
    /\ UNCHANGED <<dbVars, req, loc, conn>>

\* A finally block that keeps the connection when the ROLLBACK had failed.
ReleaseUnlessRollbackFailed(t) ==
    /\ pc[t] = "finally"
    /\ conn' = [conn EXCEPT ![t] = IF loc[t].rollbackFailed THEN @ ELSE FALSE]
    /\ pc' = [pc EXCEPT ![t] = "done"]
    /\ loc' = [loc EXCEPT ![t] =
                [NoLoc EXCEPT !.id = loc[t].id, !.rowCount = loc[t].rowCount,
                              !.acquired = loc[t].acquired,
                              !.rollbackFailed = loc[t].rollbackFailed,
                              !.releases = IF conn[t] /\ ~loc[t].rollbackFailed
                                           THEN loc[t].releases + 1
                                           ELSE loc[t].releases]]
    /\ UNCHANGED <<dbVars, lockVars, pend, req, resp>>

\* finally: if (connection) connection.release(), then the response goes
\* out.  Of the locals only the new id, the last rowCount and the history
\* fields are kept.
Release(t) ==
    /\ pc[t] = "finally"
    /\ conn' = [conn EXCEPT ![t] = FALSE]
    /\ pc' = [pc EXCEPT ![t] = "done"]
    /\ loc' = [loc EXCEPT ![t] =
                [NoLoc EXCEPT !.id = loc[t].id, !.rowCount = loc[t].rowCount,
                              !.acquired = loc[t].acquired,
                              !.rollbackFailed = loc[t].rollbackFailed,
                              !.releases = IF conn[t] THEN loc[t].releases + 1
                                           ELSE loc[t].releases]]
    /\ UNCHANGED <<dbVars, lockVars, pend, req, resp>>

\* The caller has the response; the process is free for another request.
Return(t) ==
    /\ pc[t] = "done"
    /\ pc' = [pc EXCEPT ![t] = "idle"]
    /\ req' = [req EXCEPT ![t] = NoReq]
    /\ loc' = [loc EXCEPT ![t] = NoLoc]
    /\ resp' = [resp EXCEPT ![t] = NoResp]
    /\ UNCHANGED <<dbVars, lockVars, pend, conn>>

Throw(t, e) ==
    /\ loc' = [loc EXCEPT ![t].error = e]
    /\ pc' = [pc EXCEPT ![t] = "catch"]

\* connection = await pool.connect() has returned a connection to t.
Acquired(t) == [loc EXCEPT ![t].acquired = TRUE]

\* A throw in the step that acquired the connection.
ThrowHolding(t, e) ==
    /\ loc' = [loc EXCEPT ![t].error = e, ![t].acquired = TRUE]
    /\ pc' = [pc EXCEPT ![t] = "catch"]

\* The statements of a transaction, any of which the database may fail.
StatementPcs ==
    {"s_begin", "s_insVenta", "s_insDetalle", "s_update", "s_stockInfo",
     "c_begin", "c_insCompra", "c_insDetalle", "c_upsert",
     "r_begin", "r_lock", "r_items", "r_upsert", "r_setEstado",
     "p_begin", "p_insPago", "p_totals", "p_update",
     "u_begin", "u_delete", "u_upsert", "commit"}

\* A statement fails with a database error (lost connection, constraint).
DbError(t) ==
    /\ pc[t] \in StatementPcs
    /\ Throw(t, Err("DbError"))
    /\ UNCHANGED <<dbVars, lockVars, pend, req, conn, resp>>

\* The first position of every handler, before its try block is entered.
ConnectPcs == {"s_connect", "c_connect", "r_connect", "p_connect", "u_connect"}

\* A handler without the pool check: pool.connect() on null throws in the try.
NoPoolThrows(t) ==
    /\ pc[t] \in ConnectPcs
    /\ ~databaseUrl
    /\ Throw(t, Err("TypeError"))
    /\ UNCHANGED <<dbVars, lockVars, pend, req, conn, resp>>

\* if (!pool): the 500 configuration-error response, before connection is
\* declared and before the try block.
NoPool(t) ==
    /\ pc[t] \in ConnectPcs
    /\ ~databaseUrl
    /\ resp' = [resp EXCEPT ![t] =
                 [status |-> 500, success |-> FALSE, id |-> 0, msg |-> Err("ConfigError")]]
    /\ pc' = [pc EXCEPT ![t] = "done"]
    /\ UNCHANGED <<dbVars, lockVars, pend, req, loc, conn>>

\* A ROLLBACK failure that replaces the message answered to the caller.
RollbackFailsMasking(t) ==
    /\ pc[t] = "catch"
    /\ conn[t]
    /\ pend' = [pend EXCEPT ![t] = NoPend]
    /\ lockInv' = ReleaseLocks(t, lockInv)
    /\ lockCompra' = ReleaseLocks(t, lockCompra)
    /\ loc' = [loc EXCEPT ![t].rollbackFailed = TRUE]
    /\ resp' = [resp EXCEPT ![t] =
                 [status |-> CatchStatus(req[t].kind), success |-> FALSE,
                  id |-> 0, msg |-> Err("RollbackFailed")]]
    /\ pc' = [pc EXCEPT ![t] = "finally"]
    /\ UNCHANGED <<dbVars, req, conn>>

\* catch: the ROLLBACK itself throws (the connection is lost); the inner
\* catch logs it and the error response carries the caught message.  The
\* server aborts the transaction of a lost connection, so its writes and
\* locks are dropped all the same.
RollbackFails(t) ==
    /\ pc[t] = "catch"
    /\ conn[t]
    /\ pend' = [pend EXCEPT ![t] = NoPend]
    /\ lockInv' = ReleaseLocks(t, lockInv)
    /\ lockCompra' = ReleaseLocks(t, lockCompra)
    /\ loc' = [loc EXCEPT ![t].rollbackFailed = TRUE]
    /\ resp' = [resp EXCEPT ![t] =
                 [status |-> CatchStatus(req[t].kind), success |-> FALSE,
                  id |-> 0, msg |-> loc[t].error]]
    /\ pc' = [pc EXCEPT ![t] = "finally"]
    /\ UNCHANGED <<dbVars, req, conn>>

\* ------------------------------------------------------------ create-sale
Item(p, q) == [id_producto |-> p, cantidad |-> q, precio_unitario |-> 10,
               numeric |-> TRUE]
\* An item with a field that is not a number.
MistypedItem == [id_producto |-> 1, cantidad |-> 1, precio_unitario |-> 10,
                 numeric |-> FALSE]
\* Items a request may carry: product 1 in any quantity up to MaxQty, one
\* unit of any other product, and the rejected ones (cantidad <= 0, a field
\* that is not a number).
SaleItems == {Item(1, q) : q \in 1..MaxQty} \cup {Item(p, 1) : p \in Products}
BadItems == {Item(1, 0), MistypedItem}

ItemLists(S, B) ==
    {<<a>> : a \in S \cup B}
    \cup (IF MaxItems >= 2
          THEN {<<a, b>> : a \in S, b \in S \cup B}
          ELSE {})
    \cup (IF MaxItems >= 3
          THEN {<<a, b, c>> : a \in S, b \in S, c \in B}
          ELSE {})

SaleReq(suc, montoEsNumero, items) ==
    [kind |-> "sale", id_sucursal |-> suc, montoEsNumero |-> montoEsNumero,
     items |-> items]

SaleRequests ==
    {SaleReq(Sucursal, TRUE, its) : its \in ItemLists(SaleItems, BadItems)}
    \cup {SaleReq(0, TRUE, <<Item(1, 1)>>), SaleReq(Sucursal, FALSE, <<Item(1, 1)>>),
          SaleReq(Sucursal, TRUE, <<>>)}

\* if (!id_sucursal || ... typeof monto_total !== 'number' || ... items.length === 0)
SaleBodyValid(r) ==
    /\ r.id_sucursal # 0
    /\ r.montoEsNumero
    /\ Len(r.items) > 0

\* typeof item.* === 'number' and item.cantidad > 0
\* An item check without the test of the quantity.
ItemNumeric(item) == item.numeric

ItemValid(item) == item.numeric /\ item.cantidad > 0

\* The UPDATE without its stock condition.
StockGuardDropped(row, q) == TRUE

\* WHERE ... AND cantidad >= $1
StockGuard(row, q) == row.cantidad >= q

SaleStartFrom(t, R) ==
    /\ pc[t] = "idle"
    /\ \E r \in R : req' = [req EXCEPT ![t] = r]
    /\ pc' = [pc EXCEPT ![t] = "s_connect"]
    /\ UNCHANGED <<dbVars, lockVars, pend, loc, conn, resp>>

SaleStart(t) == SaleStartFrom(t, SaleRequests)

\* connection = await pool.connect(); req.json(); the body check.
SaleConnect(t) ==
    /\ pc[t] = "s_connect"
    /\ databaseUrl
    /\ Cardinality(Holders("sale")) < PoolSize
    /\ conn' = [conn EXCEPT ![t] = TRUE]
    /\ IF SaleBodyValid(req[t])
       THEN pc' = [pc EXCEPT ![t] = "s_begin"] /\ loc' = Acquired(t)
       ELSE ThrowHolding(t, Err("DatosInvalidos"))
    /\ UNCHANGED <<dbVars, lockVars, pend, req, resp>>

SaleBegin(t) ==
    /\ pc[t] = "s_begin"
    /\ pc' = [pc EXCEPT ![t] = "s_insVenta"]
    /\ UNCHANGED <<dbVars, lockVars, pend, req, loc, conn, resp>>

\* INSERT INTO "Ventas" ... RETURNING id (the sequence advances for good).
SaleInsertVenta(t) ==
    /\ pc[t] = "s_insVenta"
    /\ seqVentas' = seqVentas + 1
    /\ pend' = [pend EXCEPT ![t].ventas =
                 <<[id |-> seqVentas + 1, id_sucursal |-> req[t].id_sucursal,
                    estado |-> "Completada"]>>]
    /\ loc' = [loc EXCEPT ![t].id = seqVentas + 1, ![t].i = 1]
    /\ pc' = [pc EXCEPT ![t] = "s_insDetalle"]
    /\ UNCHANGED <<Inventario, Ventas, Detalles_Venta, compraVars, fkPagos,
                   databaseUrl, Precios_Sucursal, page,
                   Inventario0, Compras0, Batches, lockVars, req, conn, resp>>

\* The item check, then INSERT INTO "Detalles_Venta".
SaleInsertDetalle(t) ==
    /\ pc[t] = "s_insDetalle"
    /\ LET item == req[t].items[loc[t].i]
       IN  IF ItemValid(item)
           THEN /\ pend' = [pend EXCEPT ![t].dv = Append(@,
                              [id_venta |-> loc[t].id, id_producto |-> item.id_producto,
                               cantidad |-> item.cantidad])]
                /\ pc' = [pc EXCEPT ![t] = "s_update"]
                /\ loc' = loc
           ELSE /\ Throw(t, ErrMsg("ItemInvalido", item.id_producto, 0, ""))
                /\ pend' = pend
    /\ UNCHANGED <<dbVars, lockVars, req, conn, resp>>

\* A decrement that also resets the average cost of the row.
DecrementResetsCost(row, q) ==
    [row EXCEPT !.cantidad = @ - q, !.costo = FracOfInt(0)]

\* SET cantidad = cantidad - $1: no other column is written.
Decrement(row, q) == [row EXCEPT !.cantidad = @ - q]

\* The row the conditional UPDATE of the current item matches, if any.
SaleUpdateHits(t) ==
    LET item == req[t].items[loc[t].i]
        row == InvView(t, item.id_producto)
    IN  row.e /\ StockGuard(row, item.cantidad)

\* The statement waits: the row it matched is locked by another transaction.
SaleUpdateWaits(t) ==
    /\ pc[t] = "s_update"
    /\ SaleUpdateHits(t)
    /\ InvLockedByOther(t, req[t].items[loc[t].i].id_producto)

\* UPDATE "Inventario" SET cantidad = cantidad - $1
\*  WHERE id_producto = $2 AND id_sucursal = $3 AND cantidad >= $1
SaleUpdate(t) ==
    /\ pc[t] = "s_update"
    /\ ~SaleUpdateWaits(t)
    /\ LET item == req[t].items[loc[t].i]
           p == item.id_producto
           row == InvView(t, p)
       IN  IF SaleUpdateHits(t)
           THEN /\ pend' = [pend EXCEPT ![t].inv[p] =
                     [w |-> TRUE, row |-> Decrement(row, item.cantidad)]]
                /\ lockInv' = [lockInv EXCEPT ![p] = t]
                /\ loc' = [loc EXCEPT ![t].rowCount = 1,
                                      ![t].i = IF @ < Len(req[t].items) THEN @ + 1 ELSE @]
                /\ pc' = [pc EXCEPT ![t] =
                     IF loc[t].i < Len(req[t].items) THEN "s_insDetalle" ELSE "commit"]
           ELSE /\ loc' = [loc EXCEPT ![t].rowCount = 0]
                /\ pc' = [pc EXCEPT ![t] = "s_stockInfo"]
                /\ UNCHANGED <<pend, lockInv>>
    /\ UNCHANGED <<dbVars, lockCompra, req, conn, resp>>

\* SELECT p."Nombre", i.cantidad ...; availableStock = rows[0]?.cantidad ?? 0;
\* throw new Error(`Stock insuficiente ... Disponible: .., Solicitado: ..`)
SaleStockInfo(t) ==
    /\ pc[t] = "s_stockInfo"
    /\ LET item == req[t].items[loc[t].i]
           row == InvView(t, item.id_producto)
       IN  Throw(t, ErrMsg("StockInsuficiente",
                          IF row.e THEN row.cantidad ELSE 0, item.cantidad, ""))
    /\ UNCHANGED <<dbVars, lockVars, pend, req, conn, resp>>

\* -------------------------------------------- weighted-average cost merge
\* The plain mean of the old cost and the incoming cost.
UnweightedAverage(row, qty, cost) ==
    Frac(row.costo[1] + cost * row.costo[2], 2 * row.costo[2])

\* ((cantidad * costo_promedio) + (qty * cost)) / (cantidad + qty), exactly.
WeightedAverage(row, qty, cost) ==
    Frac(row.cantidad * row.costo[1] + qty * cost * row.costo[2],
         row.costo[2] * (row.cantidad + qty))

\* INSERT INTO "Inventario" ... VALUES (.., qty, cost): the row when the key is new.
InsertedRow(qty, cost) == InvRow(qty, FracOfInt(cost))

\* A create-purchase that leaves the stock to the receipt.
UpsertCompraDeferred(row, qty, cost) == row

\* create-purchase: ON CONFLICT DO UPDATE SET costo_promedio = (...) / (...),
\* cantidad = cantidad + $3.
UpsertCompra(row, qty, cost) ==
    IF row.e
    THEN [row EXCEPT !.costo = WeightedAverage(row, qty, cost), !.cantidad = @ + qty]
    ELSE InsertedRow(qty, cost)

\* receive-purchase-stock: the same upsert with CASE WHEN (sum) = 0 THEN 0.
UpsertRecepcion(row, qty, cost) ==
    IF row.e
    THEN [row EXCEPT !.costo = IF row.cantidad + qty = 0 THEN FracOfInt(0)
                               ELSE WeightedAverage(row, qty, cost),
                     !.cantidad = @ + qty]
    ELSE InsertedRow(qty, cost)

\* -------------------------------------------------------- create-purchase
CItem(p, q, c) == [id_producto |-> p, cantidad |-> q, costo_unitario |-> c,
                   numeric |-> TRUE]
CMistypedItem == [id_producto |-> 1, cantidad |-> 1, costo_unitario |-> 1,
                  numeric |-> FALSE]
CompraItems == {CItem(1, q, c) : q \in 1..MaxQty, c \in 1..MaxCost}
               \cup {CItem(p, 1, 1) : p \in Products}
CBadItems == {CItem(1, 0, 1), CMistypedItem}

CompraReq(prov, estado, items) ==
    [kind |-> "compra", id_proveedor |-> prov, id_sucursal |-> Sucursal,
     estado |-> estado, items |-> items]

CompraRequests ==
    {CompraReq(1, "Pendiente", its) : its \in ItemLists(CompraItems, CBadItems)}
    \cup {CompraReq(0, "Pendiente", <<CItem(1, 1, 1)>>), CompraReq(1, "Pendiente", <<>>)}

\* if (!id_proveedor || !id_sucursal || ... || items.length === 0)
CompraBodyValid(r) ==
    /\ r.id_proveedor # 0
    /\ r.id_sucursal # 0
    /\ Len(r.items) > 0

\* A Detalles_Compra row; create-purchase leaves moneda to the column default.
DetalleCompra(p, q, c, m) ==
    [id_producto |-> p, cantidad |-> q, costo_unitario |-> c, moneda |-> m]

CompraStartFrom(t, R) ==
    /\ pc[t] = "idle"
    /\ \E r \in R : req' = [req EXCEPT ![t] = r]
    /\ pc' = [pc EXCEPT ![t] = "c_connect"]
    /\ UNCHANGED <<dbVars, lockVars, pend, loc, conn, resp>>

CompraStart(t) == CompraStartFrom(t, CompraRequests)

\* connection = await pool.connect(); req.json(); the body check.
CompraConnect(t) ==
    /\ pc[t] = "c_connect"
    /\ databaseUrl
    /\ Cardinality(Holders("compra")) < PoolSize
    /\ conn' = [conn EXCEPT ![t] = TRUE]
    /\ IF CompraBodyValid(req[t])
       THEN pc' = [pc EXCEPT ![t] = "c_begin"] /\ loc' = Acquired(t)
       ELSE ThrowHolding(t, Err("DatosInvalidos"))
    /\ UNCHANGED <<dbVars, lockVars, pend, req, resp>>

CompraBegin(t) ==
    /\ pc[t] = "c_begin"
    /\ pc' = [pc EXCEPT ![t] = "c_insCompra"]
    /\ UNCHANGED <<dbVars, lockVars, pend, req, loc, conn, resp>>

\* INSERT INTO "Compras" (id_proveedor, id_sucursal, monto_total, estado,
\* fecha_compra) ... RETURNING id
CompraInsertCompra(t) ==
    /\ pc[t] = "c_insCompra"
    /\ seqCompras < MaxCompras
    /\ seqCompras' = seqCompras + 1
    /\ pend' = [pend EXCEPT ![t].compra =
                 [w |-> TRUE, id |-> seqCompras + 1,
                  row |-> CompraRow(req[t].estado, "", 0, NULL)]]
    /\ loc' = [loc EXCEPT ![t].id = seqCompras + 1, ![t].i = 1]
    /\ pc' = [pc EXCEPT ![t] = "c_insDetalle"]
    /\ UNCHANGED <<Inventario, ventaVars, Compras, Detalles_Compra, Pagos_Compra,
                   fkPagos, databaseUrl, Precios_Sucursal, page, Inventario0, Compras0,
                   Batches, lockVars, req, conn, resp>>

\* The item check, then INSERT INTO "Detalles_Compra".
CompraInsertDetalle(t) ==
    /\ pc[t] = "c_insDetalle"
    /\ LET item == req[t].items[loc[t].i]
       IN  IF ItemValid(item)
           THEN /\ pend' = [pend EXCEPT ![t].dc = Append(@,
                     DetalleCompra(item.id_producto, item.cantidad,
                                   item.costo_unitario, "Bs."))]
                /\ pc' = [pc EXCEPT ![t] = "c_upsert"]
                /\ loc' = loc
           ELSE /\ Throw(t, ErrMsg("ItemInvalido", item.id_producto, 0, ""))
                /\ pend' = pend
    /\ UNCHANGED <<dbVars, lockVars, req, conn, resp>>

CompraUpsertWaits(t) ==
    /\ pc[t] = "c_upsert"
    /\ InvLockedByOther(t, req[t].items[loc[t].i].id_producto)

\* INSERT INTO "Inventario" ... ON CONFLICT (id_producto, id_sucursal) DO UPDATE
CompraUpsert(t) ==
    /\ pc[t] = "c_upsert"
    /\ ~CompraUpsertWaits(t)
    /\ LET item == req[t].items[loc[t].i]
           p == item.id_producto
           row == InvView(t, p)
       IN  IF row.e /\ row.cantidad + item.cantidad = 0
           THEN /\ Throw(t, Err("DivisionByZero"))
                /\ UNCHANGED <<pend, lockInv>>
           ELSE /\ pend' = [pend EXCEPT ![t].inv[p] =
                     [w |-> TRUE,
                      row |-> UpsertCompra(row, item.cantidad, item.costo_unitario)],
                     ![t].batches = Append(@,
                      [p |-> p, q |-> item.cantidad, c |-> item.costo_unitario])]
                /\ lockInv' = [lockInv EXCEPT ![p] = t]
                /\ loc' = [loc EXCEPT ![t].i = IF @ < Len(req[t].items) THEN @ + 1 ELSE @]
                /\ pc' = [pc EXCEPT ![t] =
                     IF loc[t].i < Len(req[t].items) THEN "c_insDetalle" ELSE "commit"]
    /\ UNCHANGED <<dbVars, lockCompra, req, conn, resp>>

\* ------------------------------------------------- receive-purchase-stock
RecibirReq(id) == [kind |-> "recibir", purchase_id |-> id]
RecibirRequests == {RecibirReq(id) : id \in 0..MaxCompras}

CompraView(t, c) ==
    IF pend[t].compra.w /\ pend[t].compra.id = c THEN pend[t].compra.row ELSE Compras[c]

CompraLockedByOther(t, c) == lockCompra[c] # 0 /\ lockCompra[c] # t

\* const exchangeRate = purchase.tipo_cambio || 1
ExchangeRateJs(tc) == IF tc = NULL \/ tc = 0 THEN 1 ELSE tc

\* item.moneda === '$' ? item.costo_unitario * exchangeRate : item.costo_unitario
ReceivedCostInBaseCurrency(item, exchangeRate) ==
    IF item.moneda = "$" THEN item.costo_unitario * exchangeRate
    ELSE item.costo_unitario

RecibirStartFrom(t, R) ==
    /\ pc[t] = "idle"
    /\ \E r \in R : req' = [req EXCEPT ![t] = r]
    /\ pc' = [pc EXCEPT ![t] = "r_connect"]
    /\ UNCHANGED <<dbVars, lockVars, pend, loc, conn, resp>>

RecibirStart(t) == RecibirStartFrom(t, RecibirRequests)

\* req.json(); if (!purchase_id) throw; connection = await pool.connect()
RecibirConnect(t) ==
    /\ pc[t] = "r_connect"
    /\ databaseUrl
    /\ IF req[t].purchase_id = 0
       THEN Throw(t, Err("IdObligatorio")) /\ conn' = conn
       ELSE /\ Cardinality(Holders("recibir")) < PoolSize
            /\ conn' = [conn EXCEPT ![t] = TRUE]
            /\ pc' = [pc EXCEPT ![t] = "r_begin"]
            /\ loc' = Acquired(t)
    /\ UNCHANGED <<dbVars, lockVars, pend, req, resp>>

RecibirBegin(t) ==
    /\ pc[t] = "r_begin"
    /\ pc' = [pc EXCEPT ![t] = "r_lock"]
    /\ UNCHANGED <<dbVars, lockVars, pend, req, loc, conn, resp>>

\* SELECT without FOR UPDATE: the read never waits for the row lock.
RecibirLockNeverWaits(t) == FALSE

RecibirLockWaits(t) ==
    /\ pc[t] = "r_lock"
    /\ Compras[req[t].purchase_id].e
    /\ CompraLockedByOther(t, req[t].purchase_id)

\* A receipt that accepts a purchase in any estado.
ReceivableAny(purchase) == TRUE

\* The estado a purchase must be in to be received.
Receivable(purchase) == purchase.estado = "Pendiente"

\* SELECT "estado", "id_sucursal", "tipo_cambio" FROM "Compras" WHERE "id" = $1
\* FOR UPDATE; then the two checks on the row.
RecibirLock(t) ==
    /\ pc[t] = "r_lock"
    /\ ~RecibirLockWaits(t)
    /\ LET c == req[t].purchase_id
           purchase == Compras[c]
       IN  IF ~purchase.e
           THEN /\ Throw(t, ErrMsg("NoEncontrada", c, 0, ""))
                /\ lockCompra' = lockCompra
           ELSE /\ lockCompra' = [lockCompra EXCEPT ![c] = t]
                /\ IF ~Receivable(purchase)
                   THEN Throw(t, ErrMsg("EstadoInvalido", c, 0, purchase.estado))
                   ELSE /\ loc' = [loc EXCEPT ![t].purchase = purchase]
                        /\ pc' = [pc EXCEPT ![t] = "r_items"]
    /\ UNCHANGED <<dbVars, lockInv, pend, req, conn, resp>>

\* An item loop without the skip of non-positive quantities.
NextAny(items, i) == i

\* The first item at or after position i with cantidad > 0 (Len + 1: none):
\* if (item.cantidad <= 0) continue;
RECURSIVE NextPositive(_, _)
NextPositive(items, i) ==
    IF i > Len(items) THEN i
    ELSE IF items[i].cantidad <= 0 THEN NextPositive(items, i + 1)
    ELSE i

\* SELECT ... FROM "Detalles_Compra" WHERE "id_compra" = $1; the empty check.
RecibirItems(t) ==
    /\ pc[t] = "r_items"
    /\ LET items == Detalles_Compra[req[t].purchase_id]
           first == NextPositive(items, 1)
       IN  IF Len(items) = 0
           THEN Throw(t, Err("SinProductos"))
           ELSE /\ loc' = [loc EXCEPT ![t].items = items, ![t].i = first]
                /\ pc' = [pc EXCEPT ![t] =
                     IF first > Len(items) THEN "r_setEstado" ELSE "r_upsert"]
    /\ UNCHANGED <<dbVars, lockVars, pend, req, conn, resp>>

RecibirUpsertWaits(t) ==
    /\ pc[t] = "r_upsert"
    /\ InvLockedByOther(t, loc[t].items[loc[t].i].id_producto)

\* INSERT INTO "Inventario" ... ON CONFLICT ... DO UPDATE (weighted average)
RecibirUpsert(t) ==
    /\ pc[t] = "r_upsert"
    /\ ~RecibirUpsertWaits(t)
    /\ LET item == loc[t].items[loc[t].i]
           p == item.id_producto
           cost == ReceivedCostInBaseCurrency(item,
                       ExchangeRateJs(loc[t].purchase.tipo_cambio))
           next == NextPositive(loc[t].items, loc[t].i + 1)
       IN  /\ pend' = [pend EXCEPT ![t].inv[p] =
                 [w |-> TRUE, row |-> UpsertRecepcion(InvView(t, p), item.cantidad, cost)],
                 ![t].batches = Append(@, [p |-> p, q |-> item.cantidad, c |-> cost])]
           /\ lockInv' = [lockInv EXCEPT ![p] = t]
           /\ loc' = [loc EXCEPT ![t].i = next]
           /\ pc' = [pc EXCEPT ![t] =
                 IF next > Len(loc[t].items) THEN "r_setEstado" ELSE "r_upsert"]
    /\ UNCHANGED <<dbVars, lockCompra, req, conn, resp>>

\* UPDATE "Compras" SET "estado" = 'Confirmado' WHERE "id" = $1
RecibirSetEstado(t) ==
    /\ pc[t] = "r_setEstado"
    /\ LET c == req[t].purchase_id
       IN  pend' = [pend EXCEPT ![t].compra =
                 [w |-> TRUE, id |-> c,
                  row |-> [CompraView(t, c) EXCEPT !.estado = "Confirmado"]]]
    /\ pc' = [pc EXCEPT ![t] = "commit"]
    /\ UNCHANGED <<dbVars, lockVars, req, loc, conn, resp>>

\* ------------------------------------------------- registrar-pago-compra
\* n currency units in thousandths.
Money(n) == n * 1000

\* The tolerance 0.001 of the paid-in-full comparison, in thousandths.
Epsilon == 1

PagoReq(id, amount, esNumero) ==
    [kind |-> "pago", purchaseId |-> id, amount |-> amount, esNumero |-> esNumero]

\* Amounts a caller may send: parts of a total of 100, the total less the
\* tolerance and less twice the tolerance.
PagoAmounts == {Money(40), Money(60), Money(100) - Epsilon, Money(100) - 2 * Epsilon}

\* Purchase 1 is paid any of the amounts, purchase 2 three of them, and the
\* ids of no purchase one part; the last three requests fail the body check.
PagoRequests ==
    {PagoReq(1, a, TRUE) : a \in PagoAmounts}
    \cup {PagoReq(2, a, TRUE) : a \in {Money(40), Money(60), Money(100) - Epsilon}}
    \cup {PagoReq(MaxCompras, Money(40), TRUE)}
    \cup {PagoReq(0, Money(40), TRUE), PagoReq(1, 0, TRUE), PagoReq(1, Money(40), FALSE)}

\* if (!purchaseId || typeof amount !== 'number' || amount <= 0 || ...)
PagoBodyValid(r) ==
    /\ r.purchaseId # 0
    /\ r.esNumero
    /\ r.amount > 0

RECURSIVE SumSeq(_)
SumSeq(xs) == IF xs = <<>> THEN 0 ELSE Head(xs) + SumSeq(Tail(xs))

\* COALESCE(c.tipo_cambio, 1.0)
Coalesce(tc) == IF tc = NULL THEN 1 ELSE tc

\* CASE WHEN d.moneda = '$' THEN d.cantidad * d.costo_unitario * COALESCE(..)
\*      ELSE d.cantidad * d.costo_unitario END
LineTotal(d, tc) ==
    IF d.moneda = "$" THEN d.cantidad * d.costo_unitario * Coalesce(tc)
    ELSE d.cantidad * d.costo_unitario

RECURSIVE SumLines(_, _)
SumLines(items, tc) ==
    IF items = <<>> THEN 0
    ELSE LineTotal(Head(items), tc) + SumLines(Tail(items), tc)

\* The total the handler writes back as it was stored, not recomputed.
StoredTotal(c) == IF Compras[c].e THEN Compras[c].monto_total ELSE 0

\* calculated_total: COALESCE(SUM(...), 0.0) over "Compras" c LEFT JOIN
\* "Detalles_Compra" d WHERE c.id = $1 (no purchase row: the sum is empty).
CalculatedTotal(c) ==
    IF Compras[c].e THEN SumLines(Detalles_Compra[c], Compras[c].tipo_cambio) ELSE 0

\* A payment sum read before the payment of this call was inserted.
PaidBeforeCall(t, c) == SumSeq(Pagos_Compra[c])

\* A payment sum that counts the payment of this call only.
OwnPaymentOnly(t, c) == SumSeq(pend[t].pagos)

\* (SELECT COALESCE(SUM(p.monto), 0.0) FROM "Pagos_Compra" p WHERE p.id_compra = $1),
\* as the statement of t sees it: the committed payments and t's own.
TotalPaid(t, c) == SumSeq(Pagos_Compra[c]) + SumSeq(pend[t].pagos)

\* The status derived without the tolerance.
NewStatusExact(total_paid, total) ==
    IF total_paid >= total THEN "Pagado"
    ELSE IF total_paid > 0 THEN "Parcialmente Pagado"
    ELSE "Pago Pendiente"

\* let newStatus = 'Pago Pendiente'; if (total_paid >= total - 0.001) ...
NewStatus(total_paid, total) ==
    IF total_paid >= total - Epsilon THEN "Pagado"
    ELSE IF total_paid > 0 THEN "Parcialmente Pagado"
    ELSE "Pago Pendiente"

PagoStartFrom(t, R) ==
    /\ pc[t] = "idle"
    /\ \E r \in R : req' = [req EXCEPT ![t] = r]
    /\ pc' = [pc EXCEPT ![t] = "p_connect"]
    /\ UNCHANGED <<dbVars, lockVars, pend, loc, conn, resp>>

\* req.json(); the body check; connection = await pool.connect()
PagoConnect(t) ==
    /\ pc[t] = "p_connect"
    /\ databaseUrl
    /\ IF ~PagoBodyValid(req[t])
       THEN Throw(t, Err("DatosInvalidos")) /\ conn' = conn
       ELSE /\ Cardinality(Holders("pago")) < PoolSize
            /\ conn' = [conn EXCEPT ![t] = TRUE]
            /\ pc' = [pc EXCEPT ![t] = "p_begin"]
            /\ loc' = Acquired(t)
    /\ UNCHANGED <<dbVars, lockVars, pend, req, resp>>

PagoBegin(t) ==
    /\ pc[t] = "p_begin"
    /\ pc' = [pc EXCEPT ![t] = "p_insPago"]
    /\ UNCHANGED <<dbVars, lockVars, pend, req, loc, conn, resp>>

\* INSERT INTO "Pagos_Compra" ("id_compra", "monto", ...): with the foreign
\* key in the schema the statement fails when no purchase has that id.
PagoInsertPago(t) ==
    /\ pc[t] = "p_insPago"
    /\ Len(Pagos_Compra[req[t].purchaseId]) < MaxPagos
    /\ IF fkPagos /\ ~Compras[req[t].purchaseId].e
       THEN Throw(t, ErrMsg("ForeignKey", req[t].purchaseId, 0, "")) /\ pend' = pend
       ELSE /\ pend' = [pend EXCEPT ![t].pagos = Append(@, req[t].amount)]
            /\ pc' = [pc EXCEPT ![t] = "p_totals"]
            /\ loc' = loc
    /\ UNCHANGED <<dbVars, lockVars, req, conn, resp>>

\* The totals query always returns one row (two scalar subqueries), so the
\* rows.length === 0 check after it never throws.
PagoTotals(t) ==
    /\ pc[t] = "p_totals"
    /\ loc' = [loc EXCEPT ![t].total = CalculatedTotal(req[t].purchaseId),
                          ![t].paid = TotalPaid(t, req[t].purchaseId)]
    /\ pc' = [pc EXCEPT ![t] = "p_update"]
    /\ UNCHANGED <<dbVars, lockVars, pend, req, conn, resp>>

\* An update that also puts the purchase back to 'Pendiente'.
SetPagoReopens(row, status, total) ==
    [row EXCEPT !.estado = "Pendiente", !.estado_pago = status, !.monto_total = total]

\* SET "estado_pago" = $1, "monto_total" = $2: the other columns stay.
SetPago(row, status, total) ==
    [row EXCEPT !.estado_pago = status, !.monto_total = total]

PagoUpdateWaits(t) ==
    /\ pc[t] = "p_update"
    /\ Compras[req[t].purchaseId].e
    /\ CompraLockedByOther(t, req[t].purchaseId)

\* UPDATE "Compras" SET "estado_pago" = $1, "monto_total" = $2 WHERE "id" = $3
PagoUpdate(t) ==
    /\ pc[t] = "p_update"
    /\ ~PagoUpdateWaits(t)
    /\ LET c == req[t].purchaseId
       IN  IF Compras[c].e
           THEN /\ pend' = [pend EXCEPT ![t].compra =
                     [w |-> TRUE, id |-> c,
                      row |-> SetPago(Compras[c],
                                      NewStatus(loc[t].paid, loc[t].total),
                                      loc[t].total)]]
                /\ lockCompra' = [lockCompra EXCEPT ![c] = t]
           ELSE UNCHANGED <<pend, lockCompra>>
    /\ pc' = [pc EXCEPT ![t] = "commit"]
    /\ UNCHANGED <<dbVars, lockInv, req, loc, conn, resp>>

\* ------------------------------------------- purchase-detail page writes
\* handleUpdateItem's timer callback: UPDATE "Detalles_Compra" SET field =
\* value WHERE id_compra = .. AND id_producto = .. (one autocommitted statement).
SetField(d, field, value) ==
    IF field = "cantidad" THEN [d EXCEPT !.cantidad = value]
    ELSE IF field = "costo_unitario" THEN [d EXCEPT !.costo_unitario = value]
    ELSE [d EXCEPT !.moneda = IF d.moneda = "$" THEN "Bs." ELSE "$"]

UpdateItemWrite(c, p, field, value) ==
    /\ Compras[c].e
    /\ \E k \in DOMAIN Detalles_Compra[c] : Detalles_Compra[c][k].id_producto = p
    /\ Detalles_Compra' = [Detalles_Compra EXCEPT ![c] =
          [k \in DOMAIN @ |-> IF @[k].id_producto = p
                              THEN SetField(@[k], field, value) ELSE @[k]]]
    /\ Detalles_Compra'[c] # Detalles_Compra[c]
    /\ UNCHANGED <<Inventario, ventaVars, Compras, Pagos_Compra, seqCompras, fkPagos,
                   databaseUrl, Precios_Sucursal,
                   Inventario0, Compras0, Batches, lockVars, pend, pc, req, loc,
                   conn, resp>>

\* handlePurchaseUpdate({ tipo_cambio }): UPDATE "Compras" SET tipo_cambio = ..
\* WHERE id = ..; the exchange-rate input accepts '' (null) and any rate >= 0.
PurchaseUpdateWrite(c, tc) ==
    /\ Compras[c].e
    /\ lockCompra[c] = 0
    /\ tc # Compras[c].tipo_cambio
    /\ Compras' = [Compras EXCEPT ![c].tipo_cambio = tc]
    /\ UNCHANGED <<Inventario, ventaVars, Detalles_Compra, Pagos_Compra, seqCompras,
                   fkPagos, databaseUrl, Precios_Sucursal, page, Inventario0, Compras0,
                   Batches, lockVars, pend, pc, req,
                   loc, conn, resp>>

\* ------------------------------------------------- update-branch-prices
PrecioRecord(b, v) == [id_sucursal |-> b, precio_venta |-> v, numeric |-> TRUE]
\* A record whose id_sucursal or precio_venta is not a number.
MistypedRecord == [id_sucursal |-> 1, precio_venta |-> 1, numeric |-> FALSE]

\* bodyOk: productId is a number and both lists are arrays.
PreciosReq(bodyOk, records, deletes) ==
    [kind |-> "precios", bodyOk |-> bodyOk, recordsToUpsert |-> records,
     branchIdsToDelete |-> deletes]

PreciosRequests ==
    {PreciosReq(TRUE, rs, ds) :
        rs \in {<<>>, <<PrecioRecord(1, 1)>>, <<PrecioRecord(1, MaxPrice), MistypedRecord>>,
                <<PrecioRecord(1, MaxPrice), PrecioRecord(NBranches, 1)>>,
                <<PrecioRecord(NBranches, MaxPrice), PrecioRecord(1, 1)>>},
        ds \in {{}, {1}, {NBranches}}}
    \cup {PreciosReq(FALSE, <<PrecioRecord(1, 1)>>, {})}

\* The row of branch b as a statement of t sees it.
PrecioView(t, b) ==
    IF pend[t].precios[b].w THEN pend[t].precios[b].row ELSE Precios_Sucursal[b]

\* Another transaction has written the row of branch b and not ended.
PrecioLockedByOther(t, b) == \E u \in Procs \ {t} : pend[u].precios[b].w

PreciosStartFrom(t, R) ==
    /\ pc[t] = "idle"
    /\ \E r \in R : req' = [req EXCEPT ![t] = r]
    /\ pc' = [pc EXCEPT ![t] = "u_connect"]
    /\ UNCHANGED <<dbVars, lockVars, pend, loc, conn, resp>>

\* req.json(); the body check; connection = await pool.connect()
PreciosConnect(t) ==
    /\ pc[t] = "u_connect"
    /\ databaseUrl
    /\ IF ~req[t].bodyOk
       THEN Throw(t, Err("DatosInvalidos")) /\ conn' = conn
       ELSE /\ Cardinality(Holders("precios")) < PoolSize
            /\ conn' = [conn EXCEPT ![t] = TRUE]
            /\ pc' = [pc EXCEPT ![t] = "u_begin"]
            /\ loc' = Acquired(t)
    /\ UNCHANGED <<dbVars, lockVars, pend, req, resp>>

\* Where the handler goes once the records from position i on remain.
\* A handler that runs its DELETE again after the last upsert.
PreciosAfterDeleteLast(t, i) ==
    IF i <= Len(req[t].recordsToUpsert) /\ loc[t].i <= Len(req[t].recordsToUpsert)
    THEN "u_upsert"
    ELSE IF i > Len(req[t].recordsToUpsert) /\ i > 1 /\ req[t].branchIdsToDelete # {}
    THEN "u_delete"
    ELSE "commit"

PreciosAfter(t, i) == IF i <= Len(req[t].recordsToUpsert) THEN "u_upsert" ELSE "commit"

\* BEGIN; if (branchIdsToDelete.length > 0) the DELETE comes next.
PreciosBegin(t) ==
    /\ pc[t] = "u_begin"
    /\ loc' = [loc EXCEPT ![t].i = 1]
    /\ pc' = [pc EXCEPT ![t] =
          IF req[t].branchIdsToDelete # {} THEN "u_delete" ELSE PreciosAfter(t, 1)]
    /\ UNCHANGED <<dbVars, lockVars, pend, req, conn, resp>>

\* The DELETE waits while a committed row it matches is written by another.
PreciosDeleteWaits(t) ==
    /\ pc[t] = "u_delete"
    /\ \E b \in req[t].branchIdsToDelete :
          Precios_Sucursal[b].e /\ PrecioLockedByOther(t, b)

\* DELETE FROM "Precios_Sucursal" WHERE "id_producto" = $1
\*   AND "id_sucursal" = ANY($2::int[])
PreciosDelete(t) ==
    /\ pc[t] = "u_delete"
    /\ ~PreciosDeleteWaits(t)
    /\ pend' = [pend EXCEPT ![t].precios =
          [b \in Branches |->
              IF b \in req[t].branchIdsToDelete /\ Precios_Sucursal[b].e
              THEN [w |-> TRUE, row |-> NoPrecio] ELSE @[b]]]
    /\ pc' = [pc EXCEPT ![t] = PreciosAfter(t, 1)]
    /\ UNCHANGED <<dbVars, lockVars, req, loc, conn, resp>>

PreciosUpsertWaits(t) ==
    /\ pc[t] = "u_upsert"
    /\ req[t].recordsToUpsert[loc[t].i].numeric
    /\ PrecioLockedByOther(t, req[t].recordsToUpsert[loc[t].i].id_sucursal)

\* An upsert that leaves the stored price of an existing row.
UpsertKeepsPrice(row, v) == IF row.e THEN row ELSE PrecioRow(v)

\* INSERT ... ON CONFLICT (id_producto, id_sucursal)
\*   DO UPDATE SET precio_venta = EXCLUDED.precio_venta
UpsertPrecio(row, v) == PrecioRow(v)

\* The record check, then the upsert of the record.
PreciosUpsert(t) ==
    /\ pc[t] = "u_upsert"
    /\ ~PreciosUpsertWaits(t)
    /\ LET record == req[t].recordsToUpsert[loc[t].i]
           b == record.id_sucursal
       IN  IF ~record.numeric
           THEN Throw(t, Err("RegistroInvalido")) /\ pend' = pend
           ELSE /\ pend' = [pend EXCEPT ![t].precios[b] =
                     [w |-> TRUE, row |-> UpsertPrecio(PrecioView(t, b), record.precio_venta)]]
                /\ loc' = [loc EXCEPT ![t].i = @ + 1]
                /\ pc' = [pc EXCEPT ![t] = PreciosAfter(t, loc[t].i + 1)]
    /\ UNCHANGED <<dbVars, lockVars, req, conn, resp>>

\* ------------------------------------------------------------ deadlocks
\* The process whose lock t is waiting for (0: t is not waiting).
WaitsFor(t) ==
    IF SaleUpdateWaits(t) THEN lockInv[req[t].items[loc[t].i].id_producto]
    ELSE IF CompraUpsertWaits(t) THEN lockInv[req[t].items[loc[t].i].id_producto]
    ELSE IF RecibirUpsertWaits(t) THEN lockInv[loc[t].items[loc[t].i].id_producto]
    ELSE IF RecibirLockWaits(t) THEN lockCompra[req[t].purchase_id]
    ELSE IF PagoUpdateWaits(t) THEN lockCompra[req[t].purchaseId]
    ELSE IF PreciosDeleteWaits(t)
         THEN CHOOSE u \in Procs \ {t} :
                  \E b \in req[t].branchIdsToDelete :
                      Precios_Sucursal[b].e /\ pend[u].precios[b].w
    ELSE IF PreciosUpsertWaits(t)
         THEN CHOOSE u \in Procs \ {t} :
                  pend[u].precios[req[t].recordsToUpsert[loc[t].i].id_sucursal].w
    ELSE 0

RECURSIVE Reaches(_, _, _)
Reaches(a, b, n) ==
    /\ n > 0
    /\ WaitsFor(a) # 0
    /\ (WaitsFor(a) = b \/ Reaches(WaitsFor(a), b, n - 1))

\* Postgres finds the cycle of waiting transactions and fails the statement
\* of one of them ("deadlock detected").
DeadlockAbort(t) ==
    /\ Reaches(t, t, NProcs)
    /\ Throw(t, Err("Deadlock"))
    /\ UNCHANGED <<dbVars, lockVars, pend, req, conn, resp>>

\* -------------------------------------------------------- connect fails
\* The handlers that check the body before they connect got past the check.
PassesEarlyCheck(t) ==
    CASE req[t].kind = "recibir" -> req[t].purchase_id # 0
      [] req[t].kind = "pago" -> PagoBodyValid(req[t])
      [] req[t].kind = "precios" -> req[t].bodyOk
      [] OTHER -> TRUE

\* pool.connect() rejects: the catch block runs with connection undefined.
ConnectFails(t) ==
    /\ pc[t] \in ConnectPcs
    /\ databaseUrl
    /\ PassesEarlyCheck(t)
    /\ Throw(t, Err("DbError"))
    /\ UNCHANGED <<dbVars, lockVars, pend, req, conn, resp>>

\* ------------------------------------------------------------------ Init
InitProcs ==
    /\ pend = [t \in Procs |-> NoPend]
    /\ pc = [t \in Procs |-> "idle"]
    /\ req = [t \in Procs |-> NoReq]
    /\ loc = [t \in Procs |-> NoLoc]
    /\ conn = [t \in Procs |-> FALSE]
    /\ resp = [t \in Procs |-> NoResp]
    /\ lockInv = [p \in Products |-> 0]
    /\ lockCompra = [c \in PurchaseIds |-> 0]

\* The connection string is configured, no price override is stored and no
\* purchase-detail page is open.
InitRest ==
    /\ databaseUrl = TRUE
    /\ Precios_Sucursal = [b \in Branches |-> NoPrecio]
    /\ page = NoPage

NoCompras ==
    /\ Compras = [c \in PurchaseIds |-> NoCompra]
    /\ Detalles_Compra = [c \in PurchaseIds |-> <<>>]
    /\ Pagos_Compra = [c \in PurchaseIds |-> <<>>]
    /\ seqCompras = 0

\* Product 1 has a row with any stock up to MaxStock; the other products
\* have no row or one unit.
InitialInventories ==
    {inv \in [Products -> {NoInv} \cup {InvRow(q, FracOfInt(5)) : q \in 0..MaxStock}] :
        /\ inv[1].e
        /\ \A p \in Products \ {1} : inv[p] \in {NoInv, InvRow(1, FracOfInt(5))}}

InitSale ==
    /\ InitProcs
    /\ Inventario \in InitialInventories
    /\ Inventario0 = Inventario
    /\ Batches = [p \in Products |-> [q |-> 0, v |-> 0]]
    /\ Ventas = <<>> /\ Detalles_Venta = <<>> /\ seqVentas = 0
    /\ NoCompras
    /\ Compras0 = Compras
    /\ fkPagos = TRUE
    /\ InitRest

\* Purchases drafted in the purchases page before any handler runs: a row
\* of Compras (estado 'Pendiente', or already 'Confirmado') with the line
\* items and exchange rate entered in the purchase-detail page.
Draft(estado, tc, items) == [estado |-> estado, tipo_cambio |-> tc, items |-> items]

Drafts ==
    {Draft("Pendiente", 2, <<DetalleCompra(1, MaxQty, 1, "$")>>),
     Draft("Pendiente", NULL,
           <<DetalleCompra(1, 1, MaxCost, "Bs."), DetalleCompra(1, 1, 1, "$")>>),
     Draft("Pendiente", 2,
           <<DetalleCompra(1, 0, 1, "Bs."), DetalleCompra(2, 1, 1, "Bs.")>>),
     Draft("Pendiente", NULL, <<>>),
     Draft("Confirmado", 2, <<DetalleCompra(1, MaxQty, 1, "$")>>)}

InitStock ==
    /\ InitProcs
    /\ Inventario \in InitialInventories \cup {[p \in Products |-> NoInv]}
    /\ Inventario0 = Inventario
    /\ Batches = [p \in Products |-> [q |-> 0, v |-> 0]]
    /\ Ventas = <<>> /\ Detalles_Venta = <<>> /\ seqVentas = 0
    /\ \E d \in Drafts :
          /\ Compras = [c \in PurchaseIds |->
                IF c = 1 THEN CompraRow(d.estado, "Pago Pendiente", 0, d.tipo_cambio)
                ELSE NoCompra]
          /\ Detalles_Compra = [c \in PurchaseIds |-> IF c = 1 THEN d.items ELSE <<>>]
    /\ Compras0 = Compras
    /\ Pagos_Compra = [c \in PurchaseIds |-> <<>>]
    /\ seqCompras = 1
    /\ fkPagos = TRUE
    /\ InitRest

\* The requests of the mixed runs: fewer shapes per handler, all handlers.
StockSaleRequests ==
    {SaleReq(Sucursal, TRUE, its) :
        its \in {<<Item(1, 1)>>, <<Item(1, MaxQty)>>, <<Item(1, 1), Item(2, 1)>>,
                 <<Item(1, 1), Item(1, 0)>>}}

StockCompraRequests ==
    {CompraReq(1, "Pendiente", its) :
        its \in {<<CItem(1, 1, 1)>>, <<CItem(1, MaxQty, MaxCost)>>,
                 <<CItem(1, 1, MaxCost), CItem(1, MaxQty, 1)>>,
                 <<CItem(2, 1, 1), CItem(1, 1, 1)>>,
                 <<CItem(1, 1, 1), CItem(1, 0, 1)>>, <<CMistypedItem>>}}
    \cup {CompraReq(0, "Pendiente", <<CItem(1, 1, 1)>>)}

StockSaleStart(t) == SaleStartFrom(t, StockSaleRequests)
StockCompraStart(t) == CompraStartFrom(t, StockCompraRequests)

SaleSteps(t) ==
    \/ SaleConnect(t) \/ SaleBegin(t) \/ SaleInsertVenta(t)
    \/ SaleInsertDetalle(t) \/ SaleUpdate(t) \/ SaleStockInfo(t)

CompraSteps(t) ==
    \/ CompraConnect(t) \/ CompraBegin(t) \/ CompraInsertCompra(t)
    \/ CompraInsertDetalle(t) \/ CompraUpsert(t)

RecibirSteps(t) ==
    \/ RecibirConnect(t) \/ RecibirBegin(t) \/ RecibirLock(t) \/ RecibirItems(t)
    \/ RecibirUpsert(t) \/ RecibirSetEstado(t)

TxStep(t) == Commit(t) \/ Rollback(t) \/ Release(t) \/ DbError(t)

\* Concurrent create-sale invocations only.
NextSale ==
    \E t \in Procs :
        SaleStart(t) \/ SaleSteps(t) \/ TxStep(t) \/ DeadlockAbort(t)

SpecSale == InitSale /\ [][NextSale]_vars

\* Concurrent create-sale, create-purchase and receive-purchase-stock.
NextStock ==
    \E t \in Procs :
        \/ StockSaleStart(t) \/ StockCompraStart(t) \/ RecibirStart(t)
        \/ SaleSteps(t) \/ CompraSteps(t) \/ RecibirSteps(t)
        \/ TxStep(t) \/ DeadlockAbort(t)

SpecStock == InitStock /\ [][NextStock]_vars

\* Concurrent receive-purchase-stock invocations only.
NextRecibir == \E t \in Procs : RecibirStart(t) \/ RecibirSteps(t) \/ TxStep(t)

SpecRecibir == InitStock /\ [][NextRecibir]_vars

\* Purchases created by create-purchase and received by
\* receive-purchase-stock, starting from no purchase at all.  No two of these
\* requests take the rows of two products in opposite orders.
NextCompraRecibir ==
    \E t \in Procs :
        \/ StockCompraStart(t) \/ RecibirStart(t)
        \/ CompraSteps(t) \/ RecibirSteps(t)
        \/ TxStep(t)

SpecCompraRecibir == InitSale /\ [][NextCompraRecibir]_vars

\* ---------------------------------------------------- payment runs
\* A purchase whose line items add up to 100 at the exchange rate 2.
PagoDraft ==
    Draft("Pendiente", 2,
          <<DetalleCompra(1, 1, Money(25), "$"), DetalleCompra(2, 1, Money(50), "Bs.")>>)

\* Purchases 1 and 2 exist with the same line items and exchange rate and any
\* stored total; no purchase has the last id.  The foreign key of
\* Pagos_Compra is part of the schema or not.
InitPago ==
    /\ InitProcs
    /\ Inventario = [p \in Products |-> NoInv]
    /\ Inventario0 = Inventario
    /\ Batches = [p \in Products |-> [q |-> 0, v |-> 0]]
    /\ Ventas = <<>> /\ Detalles_Venta = <<>> /\ seqVentas = 0
    /\ \E mt \in {0, Money(500)} :
          Compras = [c \in PurchaseIds |->
              IF c < MaxCompras
              THEN CompraRow(PagoDraft.estado, "Pago Pendiente", mt, PagoDraft.tipo_cambio)
              ELSE NoCompra]
    /\ Detalles_Compra = [c \in PurchaseIds |->
          IF c < MaxCompras THEN PagoDraft.items ELSE <<>>]
    /\ Compras0 = Compras
    /\ Pagos_Compra = [c \in PurchaseIds |-> <<>>]
    /\ seqCompras = MaxCompras - 1
    /\ fkPagos \in BOOLEAN
    /\ InitRest

AllIdle == \A u \in Procs : pc[u] = "idle"

PagoSteps(t) ==
    \/ PagoConnect(t) \/ PagoBegin(t) \/ PagoInsertPago(t) \/ PagoTotals(t)
    \/ PagoUpdate(t)

\* One call at a time: a request starts when no other is in progress and the
\* previous response has been taken.
PagoStartSeq(t) == AllIdle /\ PagoStartFrom(t, PagoRequests)

NextPagoSeq ==
    \E t \in Procs : PagoStartSeq(t) \/ PagoSteps(t) \/ TxStep(t) \/ Return(t)

SpecPagoSeq == InitPago /\ [][NextPagoSeq]_vars

\* One call at a time, with the purchase-detail page changing line items and
\* the exchange rate of purchase 1 between calls.
ItemEdit ==
    \E field \in {"cantidad", "moneda"}, value \in 1..MaxQty :
        AllIdle /\ UpdateItemWrite(1, 1, field, value) /\ UNCHANGED page

RateEdit == \E tc \in {NULL, 0, 2} : AllIdle /\ PurchaseUpdateWrite(1, tc)

PagoEditRequests == {r \in PagoRequests : r.purchaseId = 1 /\ PagoBodyValid(r)}

PagoStartEdit(t) == AllIdle /\ PagoStartFrom(t, PagoEditRequests)

NextPagoEdit ==
    \/ \E t \in Procs : PagoStartEdit(t) \/ PagoSteps(t) \/ TxStep(t) \/ Return(t)
    \/ ItemEdit
    \/ RateEdit

SpecPagoEdit == InitPago /\ [][NextPagoEdit]_vars

\* Concurrent payments, one call per process.
PagoStart(t) == PagoStartFrom(t, {r \in PagoRequests : r.purchaseId \in {0, 1, MaxCompras}})

NextPago == \E t \in Procs : PagoStart(t) \/ PagoSteps(t) \/ TxStep(t)

SpecPago == InitPago /\ [][NextPago]_vars

\* ------------------------------------------- purchase-detail page runs
\* The page of purchase 1: page.estado is purchase.estado as last fetched
\* ("" while the page is closed), page.timers the debounceTimers that have
\* not fired, one per product and field.
Timer(p, field, value) == [id_producto |-> p, field |-> field, value |-> value]

\* Every variable but the line items and the page.
pageFrame ==
    <<Inventario, ventaVars, Compras, Pagos_Compra, seqCompras, fkPagos, databaseUrl,
      Precios_Sucursal, Inventario0, Compras0, Batches, lockVars, pend, pc, req, loc,
      conn, resp>>

HasItem(c, p) ==
    \E k \in DOMAIN Detalles_Compra[c] : Detalles_Compra[c][k].id_producto = p

\* isPurchaseLocked = purchase?.estado !== 'Pendiente'
isPurchaseLocked == page.estado # "Pendiente"

\* useEffect on mount: fetchAllData() -> fetchPurchaseData() -> setPurchase
PageMount ==
    /\ page.estado = ""
    /\ Compras[1].e
    /\ page' = [estado |-> Compras[1].estado, timers |-> {}]
    /\ UNCHANGED <<pageFrame, Detalles_Compra>>

\* The effect's cleanup: every debounce timer is cleared on unmount.
PageUnmount ==
    /\ page.estado # ""
    /\ page' = NoPage
    /\ UNCHANGED <<pageFrame, Detalles_Compra>>

\* handleAddItem (the product list is rendered when !isPurchaseLocked and a
\* product already in the purchase cannot be added): INSERT cantidad 1,
\* costo_unitario 0, moneda 'Bs.'.
HandleAddItem ==
    \E p \in Products :
        /\ ~isPurchaseLocked /\ AllIdle
        /\ ~HasItem(1, p)
        /\ Detalles_Compra' = [Detalles_Compra EXCEPT ![1] =
                                  Append(@, DetalleCompra(p, 1, 0, "Bs."))]
        /\ UNCHANGED <<pageFrame, page>>

\* handleDeleteItem (the button is rendered when !isPurchaseLocked): DELETE.
HandleDeleteItem ==
    \E p \in Products :
        /\ ~isPurchaseLocked /\ AllIdle
        /\ HasItem(1, p)
        /\ Detalles_Compra' = [Detalles_Compra EXCEPT ![1] =
                                  SelectSeq(@, LAMBDA d : d.id_producto # p)]
        /\ UNCHANGED <<pageFrame, page>>

\* handleUpdateItem (the inputs are disabled when isPurchaseLocked): the
\* timer of the same product and field is cleared and a new one is set.
\* The quantity and the cost of product 1 are the fields edited here.
HandleUpdateItem ==
    \E p \in {1}, field \in {"cantidad", "costo_unitario"}, value \in 0..MaxQty :
        /\ ~isPurchaseLocked /\ AllIdle
        /\ HasItem(1, p)
        /\ LET kept == {tm \in page.timers :
                           ~(tm.id_producto = p /\ tm.field = field)}
           IN  /\ Cardinality(kept) < MaxTimers
               /\ page' = [page EXCEPT !.timers = kept \cup {Timer(p, field, value)}]
        /\ UNCHANGED <<pageFrame, Detalles_Compra>>

\* The timer callback, 800 ms after the last change of the field: the UPDATE
\* of the rows matching the purchase and the product (possibly none), with
\* no test of the purchase's estado.
DebouncedItemWrite ==
    \E tm \in page.timers :
        /\ page' = [page EXCEPT !.timers = @ \ {tm}]
        /\ Detalles_Compra' = [Detalles_Compra EXCEPT ![1] =
              [k \in DOMAIN @ |-> IF @[k].id_producto = tm.id_producto
                                  THEN SetField(@[k], tm.field, tm.value) ELSE @[k]]]
        /\ UNCHANGED pageFrame

\* handleConfirmReceive: the confirm button is rendered when
\* !isPurchaseLocked and enabled when the purchase has items and no receipt
\* is in progress; it invokes receive-purchase-stock.
HandleConfirmReceive(t) ==
    /\ ~isPurchaseLocked /\ AllIdle
    /\ Detalles_Compra[1] # <<>>
    /\ RecibirStartFrom(t, {RecibirReq(1)})

\* handleConfirmReceive after the response: fetchPurchaseData() on success,
\* only a toast on error.
AfterReceive(t) ==
    /\ pc[t] = "done"
    /\ pc' = [pc EXCEPT ![t] = "idle"]
    /\ req' = [req EXCEPT ![t] = NoReq]
    /\ loc' = [loc EXCEPT ![t] = NoLoc]
    /\ resp' = [resp EXCEPT ![t] = NoResp]
    /\ page' = IF resp[t].success /\ page.estado # ""
               THEN [page EXCEPT !.estado = Compras[1].estado]
               ELSE page
    /\ UNCHANGED <<Inventario, ventaVars, compraVars, fkPagos, databaseUrl,
                   Precios_Sucursal, Inventario0, Compras0, Batches, lockVars, pend,
                   conn>>

\* Purchase 1 is 'Pendiente' with one line item of product 1; the branch
\* holds one unit of each product; the page is closed.
InitPage ==
    /\ InitProcs
    /\ Inventario = [p \in Products |-> InvRow(1, FracOfInt(5))]
    /\ Inventario0 = Inventario
    /\ Batches = [p \in Products |-> [q |-> 0, v |-> 0]]
    /\ Ventas = <<>> /\ Detalles_Venta = <<>> /\ seqVentas = 0
    /\ Compras = [c \in PurchaseIds |->
          IF c = 1 THEN CompraRow("Pendiente", "Pago Pendiente", 0, 2) ELSE NoCompra]
    /\ Detalles_Compra = [c \in PurchaseIds |->
          IF c = 1 THEN <<DetalleCompra(1, MaxQty, 1, "$")>> ELSE <<>>]
    /\ Compras0 = Compras
    /\ Pagos_Compra = [c \in PurchaseIds |-> <<>>]
    /\ seqCompras = 1
    /\ fkPagos = TRUE
    /\ InitRest

NextPage ==
    \/ PageMount
    \/ PageUnmount
    \/ HandleAddItem
    \/ HandleDeleteItem
    \/ HandleUpdateItem
    \/ DebouncedItemWrite
    \/ \E t \in Procs :
          HandleConfirmReceive(t) \/ RecibirSteps(t) \/ TxStep(t) \/ AfterReceive(t)

SpecPage == InitPage /\ [][NextPage]_vars

\* ------------------------------------------------- sales one at a time
\* A sale of 3 units of product 1.
ScenarioSale == SaleReq(Sucursal, TRUE, <<Item(1, 3)>>)

\* The branch holds 5 units of product 1 and no row of any other product.
InitSaleSeq ==
    /\ InitProcs
    /\ Inventario = [p \in Products |-> IF p = 1 THEN InvRow(5, FracOfInt(5)) ELSE NoInv]
    /\ Inventario0 = Inventario
    /\ Batches = [p \in Products |-> [q |-> 0, v |-> 0]]
    /\ Ventas = <<>> /\ Detalles_Venta = <<>> /\ seqVentas = 0
    /\ NoCompras
    /\ Compras0 = Compras
    /\ fkPagos = TRUE
    /\ InitRest

SaleSeqRequests == {ScenarioSale, SaleReq(Sucursal, TRUE, <<Item(NProducts, 1)>>)}

\* A request starts when no other is in progress; at most MaxVentas ids of
\* Ventas are drawn.
SaleStartSeq(t) ==
    /\ \A u \in Procs : pc[u] = "idle"
    /\ seqVentas < MaxVentas
    /\ SaleStartFrom(t, SaleSeqRequests)

NextSaleSeq ==
    \E t \in Procs : SaleStartSeq(t) \/ SaleSteps(t) \/ TxStep(t) \/ Return(t)

SpecSaleSeq == InitSaleSeq /\ [][NextSaleSeq]_vars

\* --------------------------------------------------------- price runs
\* Branch 1 has a price override of the product, the other branches none.
InitialPrecios == [b \in Branches |-> IF b = 1 THEN PrecioRow(1) ELSE NoPrecio]

InitPrecios ==
    /\ InitProcs
    /\ Inventario = [p \in Products |-> NoInv]
    /\ Inventario0 = Inventario
    /\ Batches = [p \in Products |-> [q |-> 0, v |-> 0]]
    /\ Ventas = <<>> /\ Detalles_Venta = <<>> /\ seqVentas = 0
    /\ NoCompras
    /\ Compras0 = Compras
    /\ fkPagos = TRUE
    /\ databaseUrl = TRUE
    /\ Precios_Sucursal = InitialPrecios
    /\ page = NoPage

PreciosStart(t) == PreciosStartFrom(t, PreciosRequests)

PreciosSteps(t) ==
    \/ PreciosConnect(t) \/ PreciosBegin(t) \/ PreciosDelete(t) \/ PreciosUpsert(t)

\* Concurrent update-branch-prices invocations.
NextPrecios ==
    \E t \in Procs :
        PreciosStart(t) \/ PreciosSteps(t) \/ TxStep(t) \/ DeadlockAbort(t)

SpecPrecios == InitPrecios /\ [][NextPrecios]_vars

\* ------------------------------------------- sales in opposite item order
\* Two products in one order and in the other.
CruceRequests ==
    {SaleReq(Sucursal, TRUE, <<Item(1, 1), Item(NProducts, 1)>>),
     SaleReq(Sucursal, TRUE, <<Item(NProducts, 1), Item(1, 1)>>)}

\* The branch holds one unit of every product.
InitCruce ==
    /\ InitProcs
    /\ Inventario = [p \in Products |-> InvRow(1, FracOfInt(5))]
    /\ Inventario0 = Inventario
    /\ Batches = [p \in Products |-> [q |-> 0, v |-> 0]]
    /\ Ventas = <<>> /\ Detalles_Venta = <<>> /\ seqVentas = 0
    /\ NoCompras
    /\ Compras0 = Compras
    /\ fkPagos = TRUE
    /\ InitRest

NextCruce ==
    \E t \in Procs :
        SaleStartFrom(t, CruceRequests) \/ SaleSteps(t) \/ TxStep(t) \/ DeadlockAbort(t)

SpecCruce == InitCruce /\ [][NextCruce]_vars

\* Every statement that is not waiting for a lock runs, the catch and
\* finally blocks run, and the database's deadlock detector runs; a statement
\* may fail in the database (DbError) but need not.
FairCruce ==
    /\ SpecCruce
    /\ \A t \in Procs :
          WF_vars(SaleSteps(t) \/ Commit(t) \/ Rollback(t) \/ Release(t)
                  \/ DeadlockAbort(t))

\* ------------------------------------------- receipts and exchange rates
\* Line items entered in the purchase-detail page: '$' and 'Bs.' items, and
\* items whose quantity was set to 0.
CambioItems ==
    {<<DetalleCompra(1, MaxQty, 1, "$")>>,
     <<DetalleCompra(1, 1, MaxCost, "Bs."), DetalleCompra(2, 1, 1, "$")>>,
     <<DetalleCompra(1, 0, 1, "$")>>,
     <<DetalleCompra(1, 0, 1, "Bs."), DetalleCompra(2, 1, MaxCost, "$")>>,
     <<DetalleCompra(1, 0, 1, "Bs."), DetalleCompra(2, 0, 1, "$")>>}

\* Purchase 1 is 'Pendiente' with any of these line items and a stored
\* exchange rate of null, 0 (the rate input accepts every rate >= 0) or 2;
\* the branch holds one unit of product 1 and no row of the other products.
InitCambio ==
    /\ InitProcs
    /\ Inventario = [p \in Products |-> IF p = 1 THEN InvRow(1, FracOfInt(5)) ELSE NoInv]
    /\ Inventario0 = Inventario
    /\ Batches = [p \in Products |-> [q |-> 0, v |-> 0]]
    /\ Ventas = <<>> /\ Detalles_Venta = <<>> /\ seqVentas = 0
    /\ \E tc \in {NULL, 0, 2} :
          Compras = [c \in PurchaseIds |->
              IF c = 1 THEN CompraRow("Pendiente", "Pago Pendiente", 0, tc) ELSE NoCompra]
    /\ \E items \in CambioItems :
          Detalles_Compra = [c \in PurchaseIds |-> IF c = 1 THEN items ELSE <<>>]
    /\ Compras0 = Compras
    /\ Pagos_Compra = [c \in PurchaseIds |-> <<>>]
    /\ seqCompras = 1
    /\ fkPagos = TRUE
    /\ InitRest

\* Concurrent receipts and payments of purchase 1.
NextCambio ==
    \E t \in Procs :
        \/ RecibirStartFrom(t, {RecibirReq(1)})
        \/ PagoStartFrom(t, {PagoReq(1, Money(40), TRUE)})
        \/ RecibirSteps(t) \/ PagoSteps(t) \/ TxStep(t)

SpecCambio == InitCambio /\ [][NextCambio]_vars

\* ------------------------------------------------ all handlers together
\* The connection string is set or not; one unit of every product is in
\* stock; purchase 1 has one line item and is 'Pendiente' or 'Confirmado'.
InitAll ==
    /\ InitProcs
    /\ Inventario = [p \in Products |-> InvRow(1, FracOfInt(5))]
    /\ Inventario0 = Inventario
    /\ Batches = [p \in Products |-> [q |-> 0, v |-> 0]]
    /\ Ventas = <<>> /\ Detalles_Venta = <<>> /\ seqVentas = 0
    /\ \E est \in {"Pendiente", "Confirmado"} :
          Compras = [c \in PurchaseIds |->
              IF c = 1 THEN CompraRow(est, "Pago Pendiente", 0, NULL) ELSE NoCompra]
    /\ Detalles_Compra = [c \in PurchaseIds |->
          IF c = 1 THEN <<DetalleCompra(1, 1, 1, "Bs.")>> ELSE <<>>]
    /\ Compras0 = Compras
    /\ Pagos_Compra = [c \in PurchaseIds |-> <<>>]
    /\ seqCompras = 1
    /\ fkPagos = TRUE
    /\ databaseUrl \in BOOLEAN
    /\ Precios_Sucursal = InitialPrecios
    /\ page = NoPage

AllRequests ==
    {SaleReq(Sucursal, TRUE, <<Item(1, 1), Item(NProducts, 1)>>),
     SaleReq(Sucursal, TRUE, <<Item(NProducts, 1), Item(1, 1)>>),
     SaleReq(Sucursal, TRUE, <<>>),
     CompraReq(1, "Pendiente", <<CItem(1, 1, 1)>>),
     RecibirReq(1),
     PagoReq(1, Money(40), TRUE),
     PreciosReq(TRUE, <<PrecioRecord(1, MaxPrice)>>, {1}),
     PreciosReq(TRUE, <<MistypedRecord>>, {})}

OfKind(kind) == {r \in AllRequests : r.kind = kind}

AllStart(t) ==
    \/ SaleStartFrom(t, OfKind("sale"))
    \/ CompraStartFrom(t, OfKind("compra"))
    \/ RecibirStartFrom(t, OfKind("recibir"))
    \/ PagoStartFrom(t, OfKind("pago"))
    \/ PreciosStartFrom(t, OfKind("precios"))

\* The five handlers, concurrently, with every failure the model has: a
\* missing connection string, pool.connect() rejecting, a statement failing,
\* a deadlock abort and ROLLBACK itself failing.
NextAll ==
    \E t \in Procs :
        \/ AllStart(t)
        \/ SaleSteps(t) \/ CompraSteps(t) \/ RecibirSteps(t) \/ PagoSteps(t)
        \/ PreciosSteps(t)
        \/ TxStep(t) \/ DeadlockAbort(t)
        \/ NoPool(t) \/ ConnectFails(t) \/ RollbackFails(t)

SpecAll == InitAll /\ [][NextAll]_vars

\* ================================================================ claims
\* Units of product p in the committed rows of Detalles_Venta.
RECURSIVE Sold(_, _)
Sold(rows, p) ==
    IF rows = <<>> THEN 0
    ELSE (IF Head(rows).id_producto = p THEN Head(rows).cantidad ELSE 0)
         + Sold(Tail(rows), p)

VentaIds == {Ventas[k].id : k \in DOMAIN Ventas}

\* The conditional UPDATE of t's sale matched no row.
DecrementMissed(t) == req[t].kind = "sale" /\ loc[t].rowCount = 0

\* C1 (no oversell): with only create-sale requests running, in any
\* interleaving, the units sold by committed sales of a product never exceed
\* its initial stock and are exactly what was taken off the row; a request
\* whose conditional decrement matched no row ends with the insufficient-stock
\* error (or the database error of a failed statement) and none of its rows
\* is committed.
C1_NoOversell ==
    /\ \A p \in Products :
          /\ Sold(Detalles_Venta, p) <= Inventario0[p].cantidad
          /\ Inventario[p].cantidad =
                Inventario0[p].cantidad - Sold(Detalles_Venta, p)
    /\ \A t \in Procs :
          (pc[t] = "done" /\ DecrementMissed(t)) =>
              /\ ~resp[t].success
              /\ resp[t].msg.tipo \in {"StockInsuficiente", "DbError"}
              /\ loc[t].id \notin VentaIds

\* Two sales of product 1 that together ask for more than the stock: one
\* committed and sold the whole stock, the other failed for lack of stock.
C1_Witness ==
    \E t, u \in Procs :
        /\ t # u /\ pc[t] = "done" /\ pc[u] = "done"
        /\ resp[t].success /\ DecrementMissed(u)
        /\ resp[u].msg.tipo = "StockInsuficiente"
        /\ Inventario0[1].cantidad > 0
        /\ Sold(Detalles_Venta, 1) = Inventario0[1].cantidad
        /\ Inventario[1].cantidad = 0

\* C2 (stock never negative): in every reachable state of interleaved
\* create-sale, create-purchase and receive-purchase-stock invocations that
\* start from non-negative inventory, every Inventario row, committed or
\* written by an open transaction, has cantidad >= 0.
C2_NonNegative ==
    \A p \in Products :
        /\ Inventario[p].cantidad >= 0
        /\ \A t \in Procs : pend[t].inv[p].w => pend[t].inv[p].row.cantidad >= 0

\* A sale and a stock credit have both committed on product 1 and the sale
\* took the row down to zero.
C2_Witness ==
    /\ Sold(Detalles_Venta, 1) > 0
    /\ Batches[1].q > 0
    /\ Inventario[1].e /\ Inventario[1].cantidad = 0

\* Units of product p in the items with cantidad > 0 of a purchase.
RECURSIVE Received(_, _)
Received(items, p) ==
    IF items = <<>> THEN 0
    ELSE (IF Head(items).id_producto = p /\ Head(items).cantidad > 0
          THEN Head(items).cantidad ELSE 0)
         + Received(Tail(items), p)

BothReceive(t, u, c) ==
    /\ t # u
    /\ req[t].kind = "recibir" /\ req[u].kind = "recibir"
    /\ req[t].purchase_id = c /\ req[u].purchase_id = c
    /\ pc[t] = "done" /\ pc[u] = "done"
    /\ Compras0[c].e /\ Compras0[c].estado = "Pendiente"
    /\ Detalles_Compra[c] # <<>>

InfraError(t) == resp[t].msg.tipo \in {"DbError", "Deadlock"}

\* C3 (receipt is exclusive): when two receive-purchase-stock invocations on
\* the same 'Pendiente' purchase with line items have both returned, in any
\* interleaving, at most one succeeded and the items were credited at most
\* once; if no statement failed with a database error, exactly one succeeded,
\* the purchase is 'Confirmado', each item was credited exactly once, and the
\* other invocation got the invalid-state error naming 'Confirmado'.
C3_ReceiptExclusive ==
    \A t, u \in Procs : \A c \in PurchaseIds :
        BothReceive(t, u, c) =>
            /\ ~(resp[t].success /\ resp[u].success)
            /\ \A p \in Products :
                   /\ Batches[p].q <= Received(Detalles_Compra[c], p)
                   /\ Inventario[p].cantidad = Inventario0[p].cantidad + Batches[p].q
            /\ (~InfraError(t) /\ ~InfraError(u)) =>
                   /\ resp[t].success # resp[u].success
                   /\ Compras[c].estado = "Confirmado"
                   /\ \A p \in Products :
                          Batches[p].q = Received(Detalles_Compra[c], p)
                   /\ \A v \in {t, u} :
                          ~resp[v].success =>
                              resp[v].msg = ErrMsg("EstadoInvalido", c, 0, "Confirmado")

\* Two receipts of purchase 1 have returned, one of them rejected for the
\* state 'Confirmado', and stock was credited.
C3_Witness ==
    \E t, u \in Procs :
        /\ BothReceive(t, u, 1)
        /\ resp[t].success
        /\ resp[u].msg = ErrMsg("EstadoInvalido", 1, 0, "Confirmado")
        /\ Batches[1].q > 0

\* Units of product p credited by the committed purchases: the items of every
\* purchase created by create-purchase, and the items of every purchase that
\* receive-purchase-stock moved to 'Confirmado'.
RECURSIVE CreditedBy(_, _)
CreditedBy(cs, p) ==
    IF cs = {} THEN 0
    ELSE LET c == CHOOSE x \in cs : TRUE
         IN  (IF Compras[c].e /\ ~Compras0[c].e
              THEN Received(Detalles_Compra[c], p) ELSE 0)
             + (IF Compras[c].e /\ Compras[c].estado = "Confirmado"
                   /\ ~(Compras0[c].e /\ Compras0[c].estado = "Confirmado")
                THEN Received(Detalles_Compra[c], p) ELSE 0)
             + CreditedBy(cs \ {c}, p)

FailedCall(t) ==
    pc[t] = "done" /\ req[t].kind \in {"sale", "compra"} /\ ~resp[t].success

\* C4 (atomicity): after a create-sale or create-purchase call that failed
\* at any step, no header row and no line-item row of that request is
\* committed; the committed stock of every product is the initial stock plus
\* the items of the committed purchases and receipts minus the items of the
\* committed sales (a failed request contributes nothing); and when the
\* failed call ran alone, every table is exactly as before it.
C4_Atomicity ==
    /\ \A t \in Procs :
          FailedCall(t) =>
              /\ req[t].kind = "sale" =>
                     /\ loc[t].id \notin VentaIds
                     /\ \A k \in DOMAIN Detalles_Venta :
                            Detalles_Venta[k].id_venta # loc[t].id
              /\ (req[t].kind = "compra" /\ loc[t].id # 0) =>
                     /\ ~Compras[loc[t].id].e
                     /\ Detalles_Compra[loc[t].id] = <<>>
              /\ (\A u \in Procs \ {t} : pc[u] = "idle") =>
                     /\ Inventario = Inventario0
                     /\ Compras = Compras0
                     /\ Ventas = <<>> /\ Detalles_Venta = <<>>
    /\ \A p \in Products :
          Inventario[p].cantidad =
              Inventario0[p].cantidad + CreditedBy(PurchaseIds, p)
              - Sold(Detalles_Venta, p)

\* A create-purchase whose second item was rejected after the first item had
\* been written, and a create-sale that failed on its stock decrement.
C4_Witness ==
    \E t, u \in Procs :
        /\ FailedCall(t) /\ req[t].kind = "compra"
        /\ Len(req[t].items) = 2 /\ resp[t].msg.tipo = "ItemInvalido"
        /\ FailedCall(u) /\ req[u].kind = "sale"
        /\ resp[u].msg.tipo = "StockInsuficiente"

\* C5 (weighted-average cost): for a product that had no Inventario row at
\* first and of which nothing was sold, after the committed merges
\* (q1,c1)..(qn,cn) of create-purchase and receive-purchase-stock, in any
\* interleaving, the row's cantidad is the sum of the qi and its
\* costo_promedio is sum(qi*ci)/sum(qi); with no merge there is no row.
C5_WeightedAverage ==
    \A p \in Products :
        (~Inventario0[p].e /\ Sold(Detalles_Venta, p) = 0) =>
            IF Batches[p].q = 0
            THEN ~Inventario[p].e
            ELSE Inventario[p] = InvRow(Batches[p].q, Frac(Batches[p].v, Batches[p].q))

\* Product 1 started without a row and holds at least three units merged
\* at different unit costs, so that its average cost is not a whole number.
C5_Witness ==
    /\ ~Inventario0[1].e
    /\ Sold(Detalles_Venta, 1) = 0
    /\ Batches[1].q >= 3
    /\ Inventario[1].e /\ Inventario[1].costo[2] > 1

\* ------------------------------------------------------- payment claims
PagoSucceeded(t) == pc[t] = "done" /\ req[t].kind = "pago" /\ resp[t].success

\* The exchange rate of a purchase, 1.0 when none is stored.
RateOf(c) == IF Compras[c].tipo_cambio = NULL THEN 1 ELSE Compras[c].tipo_cambio

\* Sum over the committed line items of purchase c of
\* cantidad * costo_unitario * (tipo_cambio if moneda is '$', else 1).
RECURSIVE LineItemsTotal(_, _)
LineItemsTotal(items, rate) ==
    IF items = <<>> THEN 0
    ELSE Head(items).cantidad * Head(items).costo_unitario
             * (IF Head(items).moneda = "$" THEN rate ELSE 1)
         + LineItemsTotal(Tail(items), rate)

RecomputedTotal(c) == LineItemsTotal(Detalles_Compra[c], RateOf(c))

\* The tolerance rule of the payment state.
ToleranceRule(totalPaid, total) ==
    CASE totalPaid >= total - Epsilon -> "Pagado"
      [] 0 < totalPaid /\ totalPaid < total - Epsilon -> "Parcialmente Pagado"
      [] OTHER -> "Pago Pendiente"

CommittedPaid(c) == SumSeq(Pagos_Compra[c])

\* C6 (payment status, calls one at a time): after every successful
\* registrar-pago-compra call the stored estado_pago of the purchase is the
\* tolerance rule applied to the total recomputed from its line items and to
\* the sum of all its payments; on a purchase whose total is 100, after
\* paying 40 it is 'Parcialmente Pagado' and after then paying 60 'Pagado'.
C6_StatusRule ==
    \A t \in Procs :
        LET c == req[t].purchaseId
        IN  (PagoSucceeded(t) /\ Compras[c].e) =>
                /\ Compras[c].estado_pago =
                       ToleranceRule(CommittedPaid(c), RecomputedTotal(c))
                /\ RecomputedTotal(c) = Money(100) =>
                       /\ Pagos_Compra[c] = <<Money(40)>> =>
                              Compras[c].estado_pago = "Parcialmente Pagado"
                       /\ Pagos_Compra[c] = <<Money(40), Money(60)>> =>
                              Compras[c].estado_pago = "Pagado"

C6_Witness ==
    \E t \in Procs :
        /\ PagoSucceeded(t) /\ req[t].purchaseId = 1
        /\ RecomputedTotal(1) = Money(100)
        /\ Pagos_Compra[1] = <<Money(40), Money(60)>>
        /\ Compras[1].estado_pago = "Pagado"

\* C7 (concurrent payments): whenever payments of a purchase are committed,
\* in any interleaving of registrar-pago-compra invocations, the stored
\* estado_pago is the tolerance rule applied to the recomputed total and to
\* the sum of all the committed payments of that purchase.
C7_ConcurrentStatus ==
    \A c \in PurchaseIds :
        (Compras[c].e /\ Pagos_Compra[c] # <<>>) =>
            Compras[c].estado_pago =
                ToleranceRule(CommittedPaid(c), RecomputedTotal(c))

\* The payments in xs whose amount is a.
Count(xs, a) == Cardinality({k \in DOMAIN xs : xs[k] = a})

SameMultiset(xs, ys) ==
    /\ Len(xs) = Len(ys)
    /\ \A a \in PagoAmounts : Count(xs, a) = Count(ys, a)

\* C8 (order independence): two purchases with the same line items and
\* exchange rate, neither ever edited, that were paid the same multiset of
\* amounts one call at a time, in whatever order each, have the same
\* estado_pago and the same monto_total.
C8_OrderIndependent ==
    \A c, d \in PurchaseIds :
        (/\ Compras[c].e /\ Compras[d].e
         /\ Pagos_Compra[c] # <<>>
         /\ SameMultiset(Pagos_Compra[c], Pagos_Compra[d])) =>
            /\ Compras[c].estado_pago = Compras[d].estado_pago
            /\ Compras[c].monto_total = Compras[d].monto_total

C8_Witness ==
    /\ Pagos_Compra[1] = <<Money(40), Money(100) - Epsilon>>
    /\ Pagos_Compra[2] = <<Money(100) - Epsilon, Money(40)>>
    /\ Compras[1].estado_pago = "Pagado"
    /\ Compras[2].monto_total = Money(100)
    /\ AllIdle

\* C9 (total recomputed): after every successful registrar-pago-compra call
\* the stored monto_total of the purchase is the sum over its current line
\* items of cantidad * costo_unitario * (tipo_cambio if moneda is '$', else
\* 1), whatever was stored before and whatever line items or rate the
\* purchase-detail page changed since the previous payment.
C9_TotalRecomputed ==
    \A t \in Procs :
        LET c == req[t].purchaseId
        IN  (PagoSucceeded(t) /\ Compras[c].e) =>
                Compras[c].monto_total = RecomputedTotal(c)

C9_Witness ==
    \E t \in Procs :
        /\ PagoSucceeded(t) /\ req[t].purchaseId = 1
        /\ Len(Pagos_Compra[1]) = 2
        /\ Detalles_Compra[1] # Detalles_Compra[2]
        /\ Compras[1].monto_total = Money(75)
        /\ Compras[1].monto_total # Compras0[1].monto_total

\* C10 (unknown purchase): a registrar-pago-compra call with a well-formed
\* body whose purchase id matches no purchase fails with the not-found error
\* naming the id, unless a statement failed with a database error, and no
\* payment row for that id is committed.
C10_UnknownPurchase ==
    \A t \in Procs :
        (/\ pc[t] = "done" /\ req[t].kind = "pago"
         /\ PagoBodyValid(req[t])
         /\ ~Compras[req[t].purchaseId].e) =>
            /\ ~resp[t].success
            /\ InfraError(t) \/ resp[t].msg = ErrMsg("NoEncontrada", req[t].purchaseId, 0, "")
            /\ Pagos_Compra[req[t].purchaseId] = <<>>

\* C11 (sale scenario): with 5 units in stock, a create-sale call for 3 units
\* that meets no database error either succeeds with status 200 and the id of
\* the one sale persisted, leaving 2 units, or, when it is the repeated
\* request, fails with status 500 and the message 'Stock insuficiente ...
\* Disponible: 2, Solicitado: 3', with the stock still 2 and one sale persisted.
C11_SaleScenario ==
    \A t \in Procs :
        (pc[t] = "done" /\ req[t] = ScenarioSale /\ ~InfraError(t)) =>
            \/ /\ resp[t].success /\ resp[t].status = 200
               /\ Len(Ventas) = 1 /\ resp[t].id = Ventas[1].id
               /\ Inventario[1].cantidad = 2
            \/ /\ ~resp[t].success /\ resp[t].status = 500
               /\ resp[t].msg = ErrMsg("StockInsuficiente", 2, 3, "")
               /\ Inventario[1].cantidad = 2
               /\ Len(Ventas) = 1 /\ Len(Detalles_Venta) = 1

C11_Witness ==
    \E t \in Procs :
        /\ pc[t] = "done" /\ req[t] = ScenarioSale
        /\ resp[t].status = 500
        /\ resp[t].msg = ErrMsg("StockInsuficiente", 2, 3, "")
        /\ Len(Ventas) = 1 /\ Inventario[1].cantidad = 2

RanAlone(t) == \A u \in Procs \ {t} : pc[u] = "idle"

Untouched == Compras = Compras0 /\ Inventario = Inventario0

\* C12 (receive rejects without change): a receive-purchase-stock call that
\* ran alone and met no database error fails with not-found naming the id
\* when no purchase has the id, with invalid-state naming the estado when the
\* purchase is not 'Pendiente', and with the no-line-items error when the
\* purchase has none; after each of these the purchases and every Inventario
\* row are as before the call.
C12_RejectsUnchanged ==
    \A t \in Procs :
        (/\ pc[t] = "done" /\ req[t].kind = "recibir" /\ req[t].purchase_id # 0
         /\ RanAlone(t) /\ ~InfraError(t)) =>
            LET c == req[t].purchase_id
            IN  /\ ~Compras0[c].e =>
                       /\ ~resp[t].success
                       /\ resp[t].msg = ErrMsg("NoEncontrada", c, 0, "")
                       /\ Untouched
                /\ (Compras0[c].e /\ Compras0[c].estado # "Pendiente") =>
                       /\ ~resp[t].success
                       /\ resp[t].msg = ErrMsg("EstadoInvalido", c, 0, Compras0[c].estado)
                       /\ Untouched
                /\ (Compras0[c].e /\ Compras0[c].estado = "Pendiente"
                        /\ Detalles_Compra[c] = <<>>) =>
                       /\ ~resp[t].success
                       /\ resp[t].msg = Err("SinProductos")
                       /\ Untouched

C12_Witness ==
    \E t \in Procs :
        /\ pc[t] = "done" /\ req[t] = RecibirReq(1) /\ RanAlone(t)
        /\ resp[t].msg = ErrMsg("EstadoInvalido", 1, 0, "Confirmado")
        /\ resp[t].status = 400
        /\ Untouched

\* ---------------------------------------------------------- price claims
\* The table after all the deletes and then all the upserts of a request.
RECURSIVE Upserted(_, _)
Upserted(table, records) ==
    IF records = <<>> THEN table
    ELSE Upserted([table EXCEPT ![Head(records).id_sucursal] =
                      PrecioRow(Head(records).precio_venta)],
                  Tail(records))

Applied(table, r) ==
    Upserted([b \in Branches |-> IF b \in r.branchIdsToDelete THEN NoPrecio ELSE table[b]],
             r.recordsToUpsert)

\* What a returned call contributes: everything it asked for, or nothing.
Effect(table, t) ==
    IF pc[t] = "done" /\ resp[t].success THEN Applied(table, req[t]) ELSE table

\* The tables the calls of the processes in S give, applied in any order.
RECURSIVE Outcomes(_, _)
Outcomes(table, S) ==
    IF S = {} THEN {table}
    ELSE UNION {Outcomes(Effect(table, t), S \ {t}) : t \in S}

HasBadRecord(r) == \E k \in DOMAIN r.recordsToUpsert : ~r.recordsToUpsert[k].numeric

\* C19 (prices all-or-nothing): when every update-branch-prices invocation
\* has returned, every row of Precios_Sucursal is the initial row with all
\* the deletes and upserts of each successful call applied, in one order of
\* the calls, and nothing of a failed call; a call with a record that is not numeric
\* fails; so after a failed call that ran alone the table is as before, and
\* after a successful one all its deletes and upserts are in it.
C19_PricesAllOrNothing ==
    /\ \A t \in Procs :
          (pc[t] = "done" /\ req[t].kind = "precios" /\ HasBadRecord(req[t])) =>
              ~resp[t].success
    /\ (\A t \in Procs : pc[t] \in {"idle", "done"}) =>
          \A b \in Branches : \E T \in Outcomes(InitialPrecios, Procs) :
              Precios_Sucursal[b] = T[b]

C19_Witness ==
    \E t \in Procs :
        /\ pc[t] = "done" /\ RanAlone(t)
        /\ req[t] = PreciosReq(TRUE, <<PrecioRecord(1, MaxPrice), MistypedRecord>>, {1})
        /\ resp[t].msg = Err("RegistroInvalido")
        /\ Precios_Sucursal = InitialPrecios

\* ------------------------------------------------- all-handler claims
\* C13 (Confirmed is terminal): in every step of every interleaving of the
\* five handlers, a purchase whose estado is 'Confirmado' before the step is
\* 'Confirmado' after it.
C13_ConfirmedTerminal ==
    [][\A c \in PurchaseIds :
          Compras[c].estado = "Confirmado" => Compras'[c].estado = "Confirmado"]_vars

C13_Witness ==
    \E t, u \in Procs :
        /\ pc[t] = "done" /\ req[t].kind = "recibir" /\ resp[t].success
        /\ pc[u] = "done" /\ req[u].kind = "pago" /\ resp[u].success
        /\ Compras0[1].estado = "Pendiente"
        /\ Compras[1].estado = "Confirmado"
        /\ Compras[1].estado_pago = "Pagado"

\* C15 (connections released): an invocation holds a connection only after
\* pool.connect() gave it one and before it has released any; when its
\* response is returned it holds none and has called release exactly once if
\* it acquired a connection and never otherwise, whether it succeeded, failed
\* validation, met a database error or its ROLLBACK failed.
C15_ReleasedOnce ==
    \A t \in Procs :
        /\ conn[t] => (loc[t].acquired /\ loc[t].releases = 0)
        /\ pc[t] \in {"idle", "done"} => ~conn[t]
        /\ pc[t] = "done" =>
               loc[t].releases = (IF loc[t].acquired THEN 1 ELSE 0)

C15_Witness ==
    \E t \in Procs :
        /\ pc[t] = "done" /\ ~conn[t]
        /\ loc[t].acquired /\ loc[t].rollbackFailed /\ loc[t].releases = 1
        /\ \A u \in Procs : pc[u] = "done" /\ ~conn[u]

\* C16 (rollback failure does not mask): when the ROLLBACK of a failed
\* invocation of any of the five handlers itself failed, the response carries
\* the message of the error that was caught, and is an error response.
C16_OriginalError ==
    \A t \in Procs :
        (pc[t] = "finally" /\ loc[t].rollbackFailed) =>
            /\ ~resp[t].success
            /\ resp[t].msg = loc[t].error
            /\ resp[t].msg # NoErr
            /\ resp[t].status = CatchStatus(req[t].kind)

C16_Witness ==
    \E t \in Procs :
        /\ pc[t] = "finally" /\ loc[t].rollbackFailed
        /\ req[t].kind = "precios"
        /\ resp[t].msg = Err("RegistroInvalido")

\* C18 (no connection string): when DB_CONNECTION_STRING is absent, every
\* request to any of the five handlers is answered with status 500 and the
\* server-configuration-error message, never holds a connection, never
\* enters the try block and leaves every table as it was.
C18_NoConnectionString ==
    ~databaseUrl =>
        /\ \A t \in Procs :
              /\ pc[t] \in ConnectPcs \cup {"idle", "done"}
              /\ ~conn[t] /\ ~loc[t].acquired
              /\ pend[t] = NoPend
              /\ pc[t] = "done" =>
                     /\ resp[t].status = 500 /\ ~resp[t].success
                     /\ resp[t].msg = Err("ConfigError")
        /\ Untouched
        /\ Ventas = <<>> /\ Detalles_Venta = <<>>
        /\ Pagos_Compra = [c \in PurchaseIds |-> <<>>]
        /\ Precios_Sucursal = InitialPrecios

C18_Witness ==
    /\ ~databaseUrl
    /\ \E t, u \in Procs :
          /\ pc[t] = "done" /\ req[t].kind = "precios" /\ resp[t].status = 500
          /\ pc[u] = "done" /\ req[u].kind = "compra" /\ resp[u].msg = Err("ConfigError")

\* C17 (create-sale statuses): a create-sale call rejected for a malformed
\* request (the body check or the item check) is answered with status 400, and
\* one rejected for insufficient stock with status 500, each with a message.
C17_SaleStatus ==
    \A t \in Procs :
        (pc[t] = "done" /\ req[t].kind = "sale" /\ ~resp[t].success) =>
            /\ resp[t].msg.tipo \in {"DatosInvalidos", "ItemInvalido"} =>
                   resp[t].status = 400
            /\ resp[t].msg.tipo = "StockInsuficiente" => resp[t].status = 500
            /\ resp[t].msg # NoErr

\* Units of product p credited for the purchases 1..c: the line items of a
\* purchase count once when it is 'Pendiente' and twice when 'Confirmado'.
RECURSIVE TimesCredited(_, _)
TimesCredited(c, p) ==
    IF c = 0 THEN 0
    ELSE (IF ~Compras[c].e THEN 0
          ELSE (IF Compras[c].estado = "Confirmado" THEN 2 ELSE 1)
               * Received(Detalles_Compra[c], p))
         + TimesCredited(c - 1, p)

\* C20 (double credit): a purchase created by create-purchase as 'Pendiente'
\* has added each line item's quantity to the branch's inventory once, and
\* once it has been received the quantity has been added twice: the
\* inventory quantity is the prior quantity plus the purchased quantity of
\* every created purchase plus, again, that of every received one.
C20_DoubleCredit ==
    \A p \in Products :
        /\ Inventario[p].cantidad = Inventario0[p].cantidad + TimesCredited(MaxCompras, p)
        /\ \A c \in PurchaseIds :
              (Compras[c].e /\ Compras[c].estado = "Confirmado"
               /\ \A d \in PurchaseIds \ {c} : ~Compras[d].e) =>
                  Inventario[p].cantidad =
                      Inventario0[p].cantidad + 2 * Received(Detalles_Compra[c], p)

\* The only purchase, of MaxQty units of product 1, was created and then
\* received on a branch that held one unit.
C20_Witness ==
    /\ Compras[1].e /\ Compras[1].estado = "Confirmado"
    /\ \A d \in PurchaseIds \ {1} : ~Compras[d].e
    /\ Received(Detalles_Compra[1], 1) = MaxQty
    /\ Inventario0[1].cantidad = 1
    /\ Inventario[1].cantidad = 1 + 2 * MaxQty
    /\ \E t \in Procs : pc[t] = "done" /\ req[t].kind = "recibir" /\ resp[t].success

\* C14 (line items frozen): no step of the purchase-detail page or of
\* receive-purchase-stock inserts, updates or deletes a row of Detalles_Compra
\* of a purchase whose estado is 'Confirmado'.
C14_ItemsFrozen ==
    [][\A c \in PurchaseIds :
          (Compras[c].e /\ Compras[c].estado = "Confirmado") =>
              Detalles_Compra'[c] = Detalles_Compra[c]]_vars

\* ------------------------------------------------------- receipt claims
\* The line items a receipt merges, in order.
PositiveItems(items) == SelectSeq(items, LAMBDA d : d.cantidad > 0)

\* costo_unitario times the stored exchange rate (1.0 when none is stored)
\* for a '$' item, costo_unitario for any other.
CostAtStoredRate(item, tc) ==
    IF item.moneda = "$"
    THEN item.costo_unitario * (IF tc = NULL THEN 1 ELSE tc)
    ELSE item.costo_unitario

\* C21 (received cost): the unit cost receive-purchase-stock merges into
\* inventory for a line item is costo_unitario times the exchange rate of
\* the locked purchase row when the item's moneda is '$', and costo_unitario
\* for any other moneda.
C21_ReceivedCost ==
    \A t \in Procs :
        req[t].kind = "recibir" =>
            \A k \in DOMAIN pend[t].batches :
                LET item == PositiveItems(loc[t].items)[k]
                IN  /\ pend[t].batches[k].p = item.id_producto
                    /\ pend[t].batches[k].q = item.cantidad
                    /\ pend[t].batches[k].c =
                           CostAtStoredRate(item, Compras[req[t].purchase_id].tipo_cambio)

\* cantidad * costo_unitario summed over the items whose moneda is not '$'.
RECURSIVE OtherCurrencyPart(_)
OtherCurrencyPart(items) ==
    IF items = <<>> THEN 0
    ELSE (IF Head(items).moneda # "$"
          THEN Head(items).cantidad * Head(items).costo_unitario ELSE 0)
         + OtherCurrencyPart(Tail(items))

\* The value credited to inventory by the receipts, over all products.
RECURSIVE CreditedValue(_)
CreditedValue(ps) ==
    IF ps = {} THEN 0
    ELSE LET p == CHOOSE x \in ps : TRUE
         IN  Batches[p].v + CreditedValue(ps \ {p})

\* C27 (one exchange rate): once purchase 1 has been received and a payment
\* of it has recomputed monto_total from the same line items and stored
\* tipo_cambio (null and 0 included), the value credited to inventory for
\* its '$' items (quantity times credited unit cost) equals the '$' part
\* of monto_total.
C27_SameRate ==
    (/\ Compras[1].e /\ Compras[1].estado = "Confirmado"
     /\ Compras0[1].estado = "Pendiente"
     /\ Pagos_Compra[1] # <<>>) =>
        CreditedValue(Products) - OtherCurrencyPart(Detalles_Compra[1])
            = Compras[1].monto_total - OtherCurrencyPart(Detalles_Compra[1])

\* C24 (non-positive items are skipped): a receipt of the 'Pendiente'
\* purchase 1, which has at least one line item, fails only for a database
\* error or because the purchase was received meanwhile; once it is
\* 'Confirmado', exactly the items with cantidad > 0 have changed inventory:
\* every product's quantity is the prior one plus its positive items, and
\* the row of a product without a positive item is as it was.
C24_SkipsNonPositive ==
    /\ \A t \in Procs :
          (pc[t] = "done" /\ req[t].kind = "recibir") =>
              IF resp[t].success
              THEN Compras[1].estado = "Confirmado"
              ELSE resp[t].msg.tipo \in {"DbError", "EstadoInvalido"}
    /\ Compras[1].estado = "Pendiente" => Inventario = Inventario0
    /\ Compras[1].estado = "Confirmado" =>
          \A p \in Products :
              /\ Inventario[p].cantidad =
                     Inventario0[p].cantidad + Received(Detalles_Compra[1], p)
              /\ Received(Detalles_Compra[1], p) = 0 => Inventario[p] = Inventario0[p]

\* A purchase of two items, both with cantidad 0, was received: it is
\* 'Confirmado' and no Inventario row changed.
C24_Witness ==
    /\ Compras[1].estado = "Confirmado"
    /\ Len(Detalles_Compra[1]) = 2
    /\ \A k \in DOMAIN Detalles_Compra[1] : Detalles_Compra[1][k].cantidad <= 0
    /\ Inventario = Inventario0
    /\ \E t \in Procs : pc[t] = "done" /\ req[t].kind = "recibir" /\ resp[t].success

\* ------------------------------------------------ stock claims, continued
\* C22 (non-zero denominator): whenever create-purchase is about to run its
\* inventory upsert, the incoming quantity is > 0 and the row it would
\* update, if there is one, holds a quantity >= 0, so old + incoming is not
\* zero; no create-purchase call fails with a division by zero.
C22_NonZeroDenominator ==
    \A t \in Procs :
        /\ pc[t] = "c_upsert" =>
               LET item == req[t].items[loc[t].i]
                   row == InvView(t, item.id_producto)
               IN  /\ item.cantidad > 0
                   /\ row.e => (row.cantidad >= 0 /\ row.cantidad + item.cantidad # 0)
        /\ resp[t].msg.tipo # "DivisionByZero"
        /\ loc[t].error.tipo # "DivisionByZero"

\* The upsert of a create-purchase call is about to update a row whose
\* quantity a committed sale has taken down to 0.
C22_Witness ==
    \E t \in Procs :
        /\ pc[t] = "c_upsert"
        /\ LET row == InvView(t, req[t].items[loc[t].i].id_producto)
           IN  row.e /\ row.cantidad = 0
        /\ Sold(Detalles_Venta, req[t].items[loc[t].i].id_producto) > 0

\* Rows of Detalles_Venta committed under the id of t's sale.
RowsOfSale(t) == SelectSeq(Detalles_Venta, LAMBDA d : d.id_venta = loc[t].id)

\* The request passes the body check and every item check.
WellFormedSale(r) ==
    SaleBodyValid(r) /\ \A k \in DOMAIN r.items : ItemValid(r.items[k])

\* A product the request names has no Inventario row for the branch.
NamesMissingRow(r) ==
    \E k \in DOMAIN r.items : ~Inventario0[r.items[k].id_producto].e

\* The request lists one product twice, with quantities that each fit the
\* initial stock and together exceed it.
ListedTwiceOver(r) ==
    /\ Len(r.items) = 2
    /\ r.items[1].id_producto = r.items[2].id_producto
    /\ LET stock == Inventario0[r.items[1].id_producto]
       IN  /\ stock.e
           /\ r.items[1].cantidad <= stock.cantidad
           /\ r.items[2].cantidad <= stock.cantidad
           /\ r.items[1].cantidad + r.items[2].cantidad > stock.cantidad

\* C23 (every decrement must hit): a create-sale call that succeeded has
\* committed one Detalles_Venta row per item and its last conditional UPDATE
\* affected a row; a well-formed request that names a product without an
\* Inventario row, or lists a product twice with quantities that fit singly
\* but not together, fails (with the insufficient-stock error unless a
\* statement failed in the database or the transaction was a deadlock victim),
\* commits no row of its own, and leaves the inventory as it was when it ran
\* alone, the decrements of its earlier items included.
C23_EveryItemDecrements ==
    \A t \in Procs :
        (pc[t] = "done" /\ req[t].kind = "sale") =>
            /\ resp[t].success =>
                   /\ loc[t].rowCount = 1
                   /\ Len(RowsOfSale(t)) = Len(req[t].items)
            /\ (WellFormedSale(req[t])
                /\ (NamesMissingRow(req[t]) \/ ListedTwiceOver(req[t]))) =>
                   /\ ~resp[t].success
                   /\ resp[t].status = 500
                   /\ resp[t].msg.tipo \in {"StockInsuficiente", "DbError", "Deadlock"}
                   /\ RowsOfSale(t) = <<>>
                   /\ loc[t].id \notin VentaIds
                   /\ (\A u \in Procs \ {t} : pc[u] = "idle") =>
                          Inventario = Inventario0

\* A request for 1 and then MaxQty units of product 1 ran alone on a stock of
\* MaxQty: its second decrement found MaxQty - 1 units, and the stock is
\* MaxQty again.
C23_Witness ==
    \E t \in Procs :
        /\ pc[t] = "done" /\ req[t].kind = "sale"
        /\ req[t].items = <<Item(1, 1), Item(1, MaxQty)>>
        /\ ListedTwiceOver(req[t])
        /\ resp[t].msg = ErrMsg("StockInsuficiente", MaxQty - 1, MaxQty, "")
        /\ \A u \in Procs \ {t} : pc[u] = "idle"
        /\ Inventario = Inventario0

\* C28 (create-sale leaves costo_promedio): with only create-sale calls
\* running, committed or failed, every Inventario row has the costo_promedio
\* it had at first, in the committed table and in every row version written
\* by an open sale, and no row is created or removed.
C28_CostUnchanged ==
    \A p \in Products :
        /\ Inventario[p].e = Inventario0[p].e
        /\ Inventario[p].costo = Inventario0[p].costo
        /\ \A t \in Procs :
              pend[t].inv[p].w =>
                  (pend[t].inv[p].row.e /\ pend[t].inv[p].row.costo = Inventario0[p].costo)

\* One sale committed and took units off product 1, another failed; the
\* average cost of the row is what it was.
C28_Witness ==
    \E t, u \in Procs :
        /\ pc[t] = "done" /\ req[t].kind = "sale" /\ resp[t].success
        /\ pc[u] = "done" /\ req[u].kind = "sale" /\ ~resp[u].success
        /\ Inventario[1].cantidad < Inventario0[1].cantidad
        /\ Inventario[1].costo = Inventario0[1].costo
        /\ Inventario0[1].costo # FracOfInt(0)

\* C26 (reported stock): whenever create-sale fails with the
\* insufficient-stock error, the available quantity in the message is
\* strictly less than the requested quantity in it, in every interleaving
\* with concurrent sales and stock credits.
C26_AvailableBelowRequested ==
    \A t \in Procs :
        /\ resp[t].msg.tipo = "StockInsuficiente" => resp[t].msg.a < resp[t].msg.b
        /\ loc[t].error.tipo = "StockInsuficiente" => loc[t].error.a < loc[t].error.b

\* C25 (no mutual wait): two create-sale requests never reach a state in
\* which each waits for a row lock held by the other.
C25_NoMutualWait ==
    \A t, u \in Procs :
        (t # u /\ req[t].kind = "sale" /\ req[u].kind = "sale") =>
            ~(WaitsFor(t) = u /\ WaitsFor(u) = t)

\* Under FairCruce every create-sale invocation that has started returns a
\* response (it commits or returns an error).
SaleTerminates ==
    \A t \in Procs : (pc[t] = "s_connect") ~> (pc[t] = "done")

\* ------------------------------------------------ price claims, continued
\* The price of the last record of branch b in the list (0: none).
RECURSIVE LastPrice(_, _)
LastPrice(records, b) ==
    IF records = <<>> THEN 0
    ELSE LET rest == LastPrice(Tail(records), b)
         IN  IF rest # 0 THEN rest
             ELSE IF Head(records).id_sucursal = b THEN Head(records).precio_venta
             ELSE 0

\* C30 (deletes before upserts): after a successful update-branch-prices
\* call that ran alone, a branch named both in branchIdsToDelete and in
\* recordsToUpsert has its Precios_Sucursal row, holding the upserted price.
C30_DeleteThenUpsert ==
    \A t \in Procs :
        (pc[t] = "done" /\ req[t].kind = "precios" /\ resp[t].success /\ RanAlone(t)) =>
            \A b \in req[t].branchIdsToDelete :
                LastPrice(req[t].recordsToUpsert, b) # 0 =>
                    Precios_Sucursal[b] = PrecioRow(LastPrice(req[t].recordsToUpsert, b))

\* Branch 1 had a stored price; the call deleted branch 1 and upserted
\* MaxPrice for it; the row holds MaxPrice.
C30_Witness ==
    \E t \in Procs :
        /\ pc[t] = "done" /\ req[t].kind = "precios" /\ resp[t].success /\ RanAlone(t)
        /\ 1 \in req[t].branchIdsToDelete
        /\ LastPrice(req[t].recordsToUpsert, 1) = MaxPrice
        /\ InitialPrecios[1].e /\ InitialPrecios[1].precio_venta # MaxPrice
        /\ Precios_Sucursal[1] = PrecioRow(MaxPrice)

\* ---------------------------------------------- payment claims, continued
\* C29 (never back to pending): after a successful registrar-pago-compra
\* call the purchase's estado_pago is 'Parcialmente Pagado' or 'Pagado'; no
\* purchase with a committed payment is 'Pago Pendiente', and no open
\* payment transaction is about to store 'Pago Pendiente'.
C29_NotPending ==
    /\ \A t \in Procs :
          (PagoSucceeded(t) /\ Compras[req[t].purchaseId].e) =>
              Compras[req[t].purchaseId].estado_pago \in {"Parcialmente Pagado", "Pagado"}
    /\ \A c \in PurchaseIds :
          (Compras[c].e /\ Pagos_Compra[c] # <<>>) =>
              Compras[c].estado_pago # "Pago Pendiente"
    /\ \A t \in Procs :
          (req[t].kind = "pago" /\ pend[t].compra.w) =>
              pend[t].compra.row.estado_pago # "Pago Pendiente"

\* Two concurrent payments of purchase 1 succeeded and it is partially paid.
C29_Witness ==
    \E t, u \in Procs :
        /\ t # u /\ PagoSucceeded(t) /\ PagoSucceeded(u)
        /\ req[t].purchaseId = 1 /\ req[u].purchaseId = 1
        /\ Compras0[1].estado_pago = "Pago Pendiente"
        /\ Compras[1].estado_pago = "Parcialmente Pagado"

====
